---- MODULE Spec2Model ----
(***************************************************************************)
(* Model of the analysis engine of RPG Scenario Forge (src/core/utils.py): *)
(* TextAnalyzer.extract_elements with its exact-text cache, and            *)
(* CombatBalanceAnalyzer.calculate_encounter_difficulty with its           *)
(* hash-keyed cache.                                                       *)
(*                                                                         *)
(* Texts are sequences of symbols.  A symbol is either a single character  *)
(* ("[", "]", ":", " ", the letter "a") or a literal word of the source's  *)
(* patterns written in ASCII ("NPC", "zovut", ...; Width gives the number  *)
(* of characters it stands for).  Positions (start_pos, end_pos) are       *)
(* character offsets, as in the code.                                      *)
(*                                                                         *)
(* Numbers the code keeps as floats are kept exact: adjusted_xp is held    *)
(* doubled (it is a multiple of 1/2), challenge ratings are held times 8   *)
(* and a score is a fraction [n, d].                                       *)
(***************************************************************************)
EXTENDS Integers, Sequences, FiniteSets, TLC

VARIABLES
    text,        \* SpecExtract: the argument of extract_elements
    elements,    \* SpecExtract: what extract_elements returned
    epc,         \* SpecExtract: "input" before the call, "done" after it
    monsters,    \* SpecCombat: the monster list passed in
    party_level, \* SpecCombat: the party level passed in
    party_size,  \* SpecCombat: the party size passed in
    combat,      \* SpecCombat: the combat analysis produced
    score,       \* SpecCombat: the value _calculate_balance_score returned
    cpc,         \* SpecCombat: "input" before the call, "done" after it
    text_cache,  \* TextAnalyzer.cache: text -> elements
    combat_cache,\* CombatBalanceAnalyzer.cache: cache_key -> analysis
    hash_of,     \* hash(str(monsters)) of this process, per monster list
    last,        \* SpecSeq: the call made last and what it returned
    thr,         \* SpecConc: per thread, the call it is in and its progress
    scenario,    \* the text handed to an analyzer or to full_analysis
    report,      \* what that call returned, or the exception it raised
    rpc,         \* "input" before that call, "done" after it
    api_cache,   \* DnDAPI.cache: cache_key -> result
    api_last,    \* SpecApi: the call made last and what it returned
    favorites,   \* SpecFavorite: the column Scenario.favorites
    favorite_rows,\* SpecFavorite: the users with a Favorite row of the scenario
    req          \* SpecFavorite: per user, the toggle_favorite request

extractVars == <<text, elements, epc>>
combatVars == <<monsters, party_level, party_size, combat, score, cpc>>
cacheVars == <<text_cache, combat_cache, hash_of, last, thr>>
reportVars == <<scenario, report, rpc>>
apiVars == <<api_cache, api_last>>
favoriteVars == <<favorites, favorite_rows, req>>
webVars == <<apiVars, favoriteVars>>
vars == <<extractVars, combatVars, cacheVars, reportVars, webVars>>

(***************************************************************************)
(* Bounds of the model.                                                    *)
(***************************************************************************)
MaxTextLen == 5

(***************************************************************************)
(* Symbols.                                                                *)
(***************************************************************************)
\* whitespace: a blank and a line break
Spaces == {" ", "\n"}
Digits == {"0", "1", "2", "3", "4", "5"}
\* the symbols that are no letters
Punct == {"[", "]", ":", "(", ")", ",", ".", "!", "?", "/"} \cup Spaces \cup Digits

\* str.lower() of a symbol
LowerTable ==
    [NPC |-> "npc", LOC |-> "loc", ITEM |-> "item",
     ENCOUNTER |-> "encounter", PUZZLE |-> "puzzle", MONSTER |-> "monster",
     CR |-> "cr", Npc |-> "npc", Loc |-> "loc", Item |-> "item",
     Encounter |-> "encounter", Puzzle |-> "puzzle", Monster |-> "monster",
     Cr |-> "cr", X |-> "x", A |-> "a", Bob |-> "bob", Goblin |-> "goblin",
     Merchant |-> "merchant", Personazh |-> "personazh", Zovut |-> "zovut",
     Gorod |-> "gorod", V |-> "v", Artefakt |-> "artefakt",
     Magicheskij |-> "magicheskij", Boj |-> "boj", Vrag |-> "vrag",
     Zagadka |-> "zagadka", Reshit |-> "reshit", Gobliny |-> "gobliny",
     Torgovec |-> "torgovec", Prostoj |-> "prostoj", Legkij |-> "legkij",
     Ochevidnyj |-> "ochevidnyj", Pryamoj |-> "pryamoj", Yasnyj |-> "yasnyj",
     Srednij |-> "srednij", Umerennyj |-> "umerennyj",
     Logichnyj |-> "logichnyj", Standartnyj |-> "standartnyj",
     Tipichnyj |-> "tipichnyj", Slozhnyj |-> "slozhnyj",
     Trudnyj |-> "trudnyj", Zaputannyj |-> "zaputannyj", Hitryj |-> "hitryj",
     Zamyslovatyj |-> "zamyslovatyj", Ekspertnyj |-> "ekspertnyj",
     Golovolomnyj |-> "golovolomnyj", Zagadochnyj |-> "zagadochnyj",
     Neochevidnyj |-> "neochevidnyj", Skrytyj |-> "skrytyj",
     Otvet |-> "otvet", Reshenie |-> "reshenie", Klyuch |-> "klyuch",
     Razgadka |-> "razgadka", Chtoby |-> "chtoby", Dlya |-> "dlya",
     Resheniya |-> "resheniya", Podskazka |-> "podskazka",
     Namyok |-> "namyok", Ulika |-> "ulika", Sled |-> "sled",
     Zatem |-> "zatem", Potom |-> "potom", Vnezapno |-> "vnezapno",
     Odnako |-> "odnako", No |-> "no", Sledovatelno |-> "sledovatelno",
     Zavyazka |-> "zavyazka", Razvitie |-> "razvitie",
     Kulminaciya |-> "kulminaciya", Razvyazka |-> "razvyazka",
     Konflikt |-> "konflikt", Razreshenie |-> "razreshenie",
     Povorot |-> "povorot", Otkrytie |-> "otkrytie", Vvedenie |-> "vvedenie",
     Nachalo |-> "nachalo", Prolog |-> "prolog",
     Zaklyuchenie |-> "zaklyuchenie", Konec |-> "konec", Epilog |-> "epilog",
     Les |-> "les", Dom |-> "dom", On |-> "on", Posle |-> "posle",
     Etogo |-> "etogo", Vdrug |-> "vdrug", Tem |-> "tem", Ne |-> "ne",
     Menee |-> "menee", Poetomu |-> "poetomu", Takim |-> "takim",
     Obrazom |-> "obrazom", Krome |-> "krome", Togo |-> "togo",
     Bolee |-> "bolee", To |-> "to", Zhe |-> "zhe", Vremya |-> "vremya",
     Gvendolin |-> "gvendolin", Zasada |-> "zasada", T |-> "t", Yo |-> "yo",
     Mnyj |-> "mnyj", Goblina |-> "goblina", Geroi |-> "geroi",
     Prose |-> "prose"]
Lower(s) == IF s \in DOMAIN LowerTable THEN LowerTable[s] ELSE s

\* a lower-case word with its first letter turned into a capital
CapTable ==
    [npc |-> "Npc", loc |-> "Loc", item |-> "Item",
     encounter |-> "Encounter", puzzle |-> "Puzzle", monster |-> "Monster",
     cr |-> "Cr", x |-> "X", a |-> "A", bob |-> "Bob", goblin |-> "Goblin",
     merchant |-> "Merchant", personazh |-> "Personazh", zovut |-> "Zovut",
     gorod |-> "Gorod", v |-> "V", artefakt |-> "Artefakt",
     magicheskij |-> "Magicheskij", boj |-> "Boj", vrag |-> "Vrag",
     zagadka |-> "Zagadka", reshit |-> "Reshit", gobliny |-> "Gobliny",
     torgovec |-> "Torgovec", prostoj |-> "Prostoj", legkij |-> "Legkij",
     ochevidnyj |-> "Ochevidnyj", pryamoj |-> "Pryamoj", yasnyj |-> "Yasnyj",
     srednij |-> "Srednij", umerennyj |-> "Umerennyj",
     logichnyj |-> "Logichnyj", standartnyj |-> "Standartnyj",
     tipichnyj |-> "Tipichnyj", slozhnyj |-> "Slozhnyj",
     trudnyj |-> "Trudnyj", zaputannyj |-> "Zaputannyj", hitryj |-> "Hitryj",
     zamyslovatyj |-> "Zamyslovatyj", ekspertnyj |-> "Ekspertnyj",
     golovolomnyj |-> "Golovolomnyj", zagadochnyj |-> "Zagadochnyj",
     neochevidnyj |-> "Neochevidnyj", skrytyj |-> "Skrytyj",
     otvet |-> "Otvet", reshenie |-> "Reshenie", klyuch |-> "Klyuch",
     razgadka |-> "Razgadka", chtoby |-> "Chtoby", dlya |-> "Dlya",
     resheniya |-> "Resheniya", podskazka |-> "Podskazka",
     namyok |-> "Namyok", ulika |-> "Ulika", sled |-> "Sled",
     zatem |-> "Zatem", potom |-> "Potom", vnezapno |-> "Vnezapno",
     odnako |-> "Odnako", no |-> "No", sledovatelno |-> "Sledovatelno",
     zavyazka |-> "Zavyazka", razvitie |-> "Razvitie",
     kulminaciya |-> "Kulminaciya", razvyazka |-> "Razvyazka",
     konflikt |-> "Konflikt", razreshenie |-> "Razreshenie",
     povorot |-> "Povorot", otkrytie |-> "Otkrytie", vvedenie |-> "Vvedenie",
     nachalo |-> "Nachalo", prolog |-> "Prolog",
     zaklyuchenie |-> "Zaklyuchenie", konec |-> "Konec", epilog |-> "Epilog",
     les |-> "Les", dom |-> "Dom", on |-> "On", posle |-> "Posle",
     etogo |-> "Etogo", vdrug |-> "Vdrug", tem |-> "Tem", ne |-> "Ne",
     menee |-> "Menee", poetomu |-> "Poetomu", takim |-> "Takim",
     obrazom |-> "Obrazom", krome |-> "Krome", togo |-> "Togo",
     bolee |-> "Bolee", to |-> "To", zhe |-> "Zhe", vremya |-> "Vremya",
     gvendolin |-> "Gvendolin", zasada |-> "Zasada", t |-> "T", yo |-> "Yo",
     mnyj |-> "Mnyj", goblina |-> "Goblina", geroi |-> "Geroi",
     prose |-> "Prose"]
Cap(s) == IF s \in DOMAIN CapTable THEN CapTable[s] ELSE s

\* The characters of a lower-case symbol.  A Latin letter is written in
\* lower case and a Cyrillic letter in upper-case transliteration, so that
\* the two scripts stay apart; every other symbol is one character.
SpellTable ==
    [npc |-> <<"n", "p", "c">>, loc |-> <<"l", "o", "c">>,
     item |-> <<"i", "t", "e", "m">>,
     encounter |-> <<"e", "n", "c", "o", "u", "n", "t", "e", "r">>,
     puzzle |-> <<"p", "u", "z", "z", "l", "e">>,
     monster |-> <<"m", "o", "n", "s", "t", "e", "r">>, cr |-> <<"c", "r">>,
     bob |-> <<"b", "o", "b">>, goblin |-> <<"g", "o", "b", "l", "i", "n">>,
     merchant |-> <<"m", "e", "r", "c", "h", "a", "n", "t">>,
     personazh |-> <<"P", "E", "R", "S", "O", "N", "A", "Zh">>,
     zovut |-> <<"Z", "O", "V", "U", "T">>,
     gorod |-> <<"G", "O", "R", "O", "D">>, v |-> <<"V">>,
     artefakt |-> <<"A", "R", "T", "E", "F", "A", "K", "T">>,
     magicheskij |-> <<"M", "A", "G", "I", "Ch", "E", "S", "K", "I", "J">>,
     boj |-> <<"B", "O", "J">>, vrag |-> <<"V", "R", "A", "G">>,
     zagadka |-> <<"Z", "A", "G", "A", "D", "K", "A">>,
     reshit |-> <<"R", "E", "Sh", "I", "T", "X">>,
     gobliny |-> <<"G", "O", "B", "L", "I", "N", "Y">>,
     torgovec |-> <<"T", "O", "R", "G", "O", "V", "E", "Ts">>,
     prostoj |-> <<"P", "R", "O", "S", "T", "O", "J">>,
     legkij |-> <<"L", "E", "G", "K", "I", "J">>,
     ochevidnyj |-> <<"O", "Ch", "E", "V", "I", "D", "N", "Y", "J">>,
     pryamoj |-> <<"P", "R", "Ya", "M", "O", "J">>,
     yasnyj |-> <<"Ya", "S", "N", "Y", "J">>,
     srednij |-> <<"S", "R", "E", "D", "N", "I", "J">>,
     umerennyj |-> <<"U", "M", "E", "R", "E", "N", "N", "Y", "J">>,
     logichnyj |-> <<"L", "O", "G", "I", "Ch", "N", "Y", "J">>,
     standartnyj |-> <<"S", "T", "A", "N", "D", "A", "R", "T", "N", "Y", "J">>,
     tipichnyj |-> <<"T", "I", "P", "I", "Ch", "N", "Y", "J">>,
     slozhnyj |-> <<"S", "L", "O", "Zh", "N", "Y", "J">>,
     trudnyj |-> <<"T", "R", "U", "D", "N", "Y", "J">>,
     zaputannyj |-> <<"Z", "A", "P", "U", "T", "A", "N", "N", "Y", "J">>,
     hitryj |-> <<"H", "I", "T", "R", "Y", "J">>,
     zamyslovatyj |-> <<"Z", "A", "M", "Y", "S", "L", "O", "V", "A", "T", "Y", "J">>,
     ekspertnyj |-> <<"Eh", "K", "S", "P", "E", "R", "T", "N", "Y", "J">>,
     golovolomnyj |-> <<"G", "O", "L", "O", "V", "O", "L", "O", "M", "N", "Y", "J">>,
     zagadochnyj |-> <<"Z", "A", "G", "A", "D", "O", "Ch", "N", "Y", "J">>,
     neochevidnyj |-> <<"N", "E", "O", "Ch", "E", "V", "I", "D", "N", "Y", "J">>,
     skrytyj |-> <<"S", "K", "R", "Y", "T", "Y", "J">>,
     otvet |-> <<"O", "T", "V", "E", "T">>,
     reshenie |-> <<"R", "E", "Sh", "E", "N", "I", "E">>,
     klyuch |-> <<"K", "L", "Yu", "Ch">>,
     razgadka |-> <<"R", "A", "Z", "G", "A", "D", "K", "A">>,
     chtoby |-> <<"Ch", "T", "O", "B", "Y">>, dlya |-> <<"D", "L", "Ya">>,
     resheniya |-> <<"R", "E", "Sh", "E", "N", "I", "Ya">>,
     podskazka |-> <<"P", "O", "D", "S", "K", "A", "Z", "K", "A">>,
     namyok |-> <<"N", "A", "M", "Yo", "K">>,
     ulika |-> <<"U", "L", "I", "K", "A">>, sled |-> <<"S", "L", "E", "D">>,
     zatem |-> <<"Z", "A", "T", "E", "M">>,
     potom |-> <<"P", "O", "T", "O", "M">>,
     vnezapno |-> <<"V", "N", "E", "Z", "A", "P", "N", "O">>,
     odnako |-> <<"O", "D", "N", "A", "K", "O">>, no |-> <<"N", "O">>,
     sledovatelno |-> <<"S", "L", "E", "D", "O", "V", "A", "T", "E", "L", "X", "N", "O">>,
     zavyazka |-> <<"Z", "A", "V", "Ya", "Z", "K", "A">>,
     razvitie |-> <<"R", "A", "Z", "V", "I", "T", "I", "E">>,
     kulminaciya |-> <<"K", "U", "L", "X", "M", "I", "N", "A", "Ts", "I", "Ya">>,
     razvyazka |-> <<"R", "A", "Z", "V", "Ya", "Z", "K", "A">>,
     konflikt |-> <<"K", "O", "N", "F", "L", "I", "K", "T">>,
     razreshenie |-> <<"R", "A", "Z", "R", "E", "Sh", "E", "N", "I", "E">>,
     povorot |-> <<"P", "O", "V", "O", "R", "O", "T">>,
     otkrytie |-> <<"O", "T", "K", "R", "Y", "T", "I", "E">>,
     vvedenie |-> <<"V", "V", "E", "D", "E", "N", "I", "E">>,
     nachalo |-> <<"N", "A", "Ch", "A", "L", "O">>,
     prolog |-> <<"P", "R", "O", "L", "O", "G">>,
     zaklyuchenie |-> <<"Z", "A", "K", "L", "Yu", "Ch", "E", "N", "I", "E">>,
     konec |-> <<"K", "O", "N", "E", "Ts">>,
     epilog |-> <<"Eh", "P", "I", "L", "O", "G">>, les |-> <<"L", "E", "S">>,
     dom |-> <<"D", "O", "M">>, on |-> <<"O", "N">>,
     posle |-> <<"P", "O", "S", "L", "E">>,
     etogo |-> <<"Eh", "T", "O", "G", "O">>,
     vdrug |-> <<"V", "D", "R", "U", "G">>, tem |-> <<"T", "E", "M">>,
     ne |-> <<"N", "E">>, menee |-> <<"M", "E", "N", "E", "E">>,
     poetomu |-> <<"P", "O", "Eh", "T", "O", "M", "U">>,
     takim |-> <<"T", "A", "K", "I", "M">>,
     obrazom |-> <<"O", "B", "R", "A", "Z", "O", "M">>,
     krome |-> <<"K", "R", "O", "M", "E">>, togo |-> <<"T", "O", "G", "O">>,
     bolee |-> <<"B", "O", "L", "E", "E">>, to |-> <<"T", "O">>,
     zhe |-> <<"Zh", "E">>, vremya |-> <<"V", "R", "E", "M", "Ya">>,
     gvendolin |-> <<"G", "V", "E", "N", "D", "O", "L", "I", "N">>,
     zasada |-> <<"Z", "A", "S", "A", "D", "A">>, t |-> <<"T">>,
     yo |-> <<"Yo">>, mnyj |-> <<"M", "N", "Y", "J">>,
     goblina |-> <<"G", "O", "B", "L", "I", "N", "A">>,
     geroi |-> <<"G", "E", "R", "O", "I">>,
     prose |-> [k \in 1..190 |-> "Sch"]]
Spell(s) == IF s \in DOMAIN SpellTable THEN SpellTable[s] ELSE <<s>>

\* the number of characters of a symbol
Width(s) == Len(Spell(Lower(s)))

\* the characters of a text in lower case (str.lower)
RECURSIVE Chars(_)
Chars(q) == IF q = <<>> THEN <<>> ELSE Spell(Lower(Head(q))) \o Chars(Tail(q))

\* needle in hay, for two strings held as characters
Occurs(hay, needle) ==
    \E i \in 1..(Len(hay) - Len(needle) + 1) :
        SubSeq(hay, i, i + Len(needle) - 1) = needle

IsSpace(s) == s \in Spaces

\* F applied to v: the value of an expression under the name of a parameter
Apply(F(_), v) == F(v)

RECURSIVE SeqWidth(_)
SeqWidth(q) == IF q = <<>> THEN 0 ELSE Width(Head(q)) + SeqWidth(Tail(q))

\* character offset of the symbol at index i (1-based) of t
Off(t, i) == SeqWidth(SubSeq(t, 1, i - 1))

\* str.strip(): leading and trailing whitespace removed
RECURSIVE LStrip(_)
LStrip(q) == IF q # <<>> /\ IsSpace(Head(q)) THEN LStrip(Tail(q)) ELSE q
RECURSIVE RStrip(_)
RStrip(q) ==
    IF q # <<>> /\ IsSpace(q[Len(q)]) THEN RStrip(SubSeq(q, 1, Len(q) - 1)) ELSE q
Strip(q) == RStrip(LStrip(q))

(***************************************************************************)
(* TextAnalyzer.PATTERNS: per element type an ordered list of three        *)
(* patterns.  kind "tag" is \[KW:\s*([^\]]+)\]; kind "kw" is               *)
(* (?:kws)SEP+(NAME) with SEP = [:\s] (colon TRUE) or \s (colon FALSE) and *)
(* NAME = W(?:\s+W)*, W two or more letters (form "words"; the patterns    *)
(* are matched with re.IGNORECASE, so [A-Z][a-z]+ is any two letters), or  *)
(* NAME = one or more letters (form "lower").                              *)
(***************************************************************************)
ElementTypes == <<"npc", "location", "item", "encounter", "puzzle">>

Tag(kw) == [kind |-> "tag", kws |-> {kw}, colon |-> TRUE, form |-> "any"]
Kw(kws, colon, form) == [kind |-> "kw", kws |-> kws, colon |-> colon, form |-> form]

PATTERNS(type) ==
    CASE type = "npc" ->
            <<Tag("NPC"),
              Kw({"NPC", "personazh"}, TRUE, "words"),
              Kw({"zovut"}, TRUE, "words")>>
      [] type = "location" ->
            <<Tag("LOC"),
              Kw({"gorod"}, TRUE, "words"),
              Kw({"v"}, FALSE, "words")>>
      [] type = "item" ->
            <<Tag("ITEM"),
              Kw({"artefakt"}, TRUE, "words"),
              Kw({"magicheskij"}, FALSE, "lower")>>
      [] type = "encounter" ->
            <<Tag("ENCOUNTER"),
              Kw({"boj"}, TRUE, "words"),
              Kw({"vrag"}, TRUE, "words")>>
      [] type = "puzzle" ->
            <<Tag("PUZZLE"),
              Kw({"zagadka"}, TRUE, "words"),
              Kw({"reshit"}, TRUE, "lower")>>

(***************************************************************************)
(* Matching one pattern at one index.  A match is [e |-> index after the   *)
(* match, g |-> group(1)]; NoMatch when the pattern does not match there.  *)
(***************************************************************************)
NoMatch == [e |-> 0, g |-> <<>>]

\* index after the longest run of symbols from index i on that are in class C
RECURSIVE RunEnd(_, _, _)
RunEnd(t, i, C) == IF i <= Len(t) /\ t[i] \in C THEN RunEnd(t, i + 1, C) ELSE i

\* the letter yo, which the ranges a-z and а-я of the patterns leave out
Yo == {"yo", "Yo"}

Letters(t) == {t[k] : k \in 1..Len(t)} \ (Punct \cup Yo)

\* end of a word W starting at index s: a run of letters of two or more
\* characters; 0 when there is none
WordEnd(t, s) ==
    LET e == RunEnd(t, s, Letters(t))
    IN  IF e > s /\ SeqWidth(SubSeq(t, s, e - 1)) >= 2 THEN e ELSE 0

\* (?:\s+W)* from index e on: the index after the last repetition
RECURSIVE MoreWords(_, _)
MoreWords(t, e) ==
    LET sp == RunEnd(t, e, Spaces)
        we == IF sp > e THEN WordEnd(t, sp) ELSE 0
    IN  IF we > 0 THEN MoreWords(t, we) ELSE e

MatchTag(t, i, p) ==
    IF i + 3 <= Len(t) /\ t[i] = "[" /\ t[i + 1] \in p.kws /\ t[i + 2] = ":"
    THEN LET j == RunEnd(t, i + 3, {t[k] : k \in 1..Len(t)} \ {"]"})
         IN  IF j <= Len(t) /\ j > i + 3
             THEN [e |-> j + 1, g |-> SubSeq(t, i + 3, j - 1)]
             ELSE NoMatch
    ELSE NoMatch

MatchKw(t, i, p) ==
    IF t[i] \in p.kws
    THEN LET s == RunEnd(t, i + 1, IF p.colon THEN {":"} \cup Spaces ELSE Spaces)
             e == IF s = i + 1 THEN 0
                  ELSE IF p.form = "words"
                       THEN (IF WordEnd(t, s) > 0 THEN MoreWords(t, WordEnd(t, s)) ELSE 0)
                       ELSE (IF RunEnd(t, s, Letters(t)) > s
                             THEN RunEnd(t, s, Letters(t)) ELSE 0)
         IN  IF e > 0 THEN [e |-> e, g |-> SubSeq(t, s, e - 1)] ELSE NoMatch
    ELSE NoMatch

MatchAt(t, i, p) == IF p.kind = "tag" THEN MatchTag(t, i, p) ELSE MatchKw(t, i, p)

(***************************************************************************)
(* re.finditer(pattern, text): the non-overlapping matches, left to right, *)
(* each turned into the candidate element of lines 68-77 (dropped when the *)
(* stripped name has at most one character).                               *)
(***************************************************************************)
Element(t, i, m) ==
    [name |-> Strip(m.g),
     start_pos |-> Off(t, i),
     end_pos |-> Off(t, m.e),
     text |-> SubSeq(t, i, m.e - 1),
     confidence |-> IF "[" \in {t[k] : k \in i..(m.e - 1)} THEN 8 ELSE 5]

RECURSIVE Candidates(_, _, _)
Candidates(t, p, i) ==
    IF i > Len(t) THEN <<>>
    ELSE Apply(LAMBDA m :
                   IF m.e = 0 THEN Candidates(t, p, i + 1)
                   ELSE (IF SeqWidth(Strip(m.g)) > 1 THEN <<Element(t, i, m)>> ELSE <<>>)
                        \o Candidates(t, p, m.e),
               MatchAt(t, i, p))

TypeCandidates(t, type) ==
    Candidates(t, PATTERNS(type)[1], 1)
        \o Candidates(t, PATTERNS(type)[2], 1)
        \o Candidates(t, PATTERNS(type)[3], 1)

(***************************************************************************)
(* Lines 79-88: removal of duplicates, keyed by (name, start_pos).         *)
(***************************************************************************)
ElemKey(el) == <<el.name, el.start_pos>>

RECURSIVE Unique(_, _)
Unique(els, seen) ==
    IF els = <<>> THEN <<>>
    ELSE IF ElemKey(Head(els)) \in seen
         THEN Unique(Tail(els), seen)
         ELSE <<Head(els)>> \o Unique(Tail(els), seen \cup {ElemKey(Head(els))})

\* deliberately wrong variant: duplicates are recognised by name alone
RECURSIVE UniqueName(_, _)
UniqueName(els, seen) ==
    IF els = <<>> THEN <<>>
    ELSE IF Head(els).name \in seen
         THEN UniqueName(Tail(els), seen)
         ELSE <<Head(els)>> \o UniqueName(Tail(els), seen \cup {Head(els).name})

UniqueByName(els) == UniqueName(els, {})

UniqueElements(els) == Unique(els, {})

\* the uncached body of extract_elements (lines 62-88 and dict(elements)):
\* a map from the types that had a candidate to their lists
ComputeElements(t) ==
    LET found == {ty \in {ElementTypes[k] : k \in 1..Len(ElementTypes)} :
                      TypeCandidates(t, ty) # <<>>}
    IN  [ty \in found |-> UniqueElements(TypeCandidates(t, ty))]

NoElements == <<>>

ExtractIdle ==
    /\ text = <<>>
    /\ elements = NoElements
    /\ epc = "off"

(***************************************************************************)
(* CombatBalanceAnalyzer: the tables.  Challenge ratings are held times 8  *)
(* (0.125 is 1, 0.25 is 2, 0.5 is 4, 1 is 8, ...).                         *)
(***************************************************************************)
Row(e, m, h, d) == [easy |-> e, medium |-> m, hard |-> h, deadly |-> d]

XP_THRESHOLDS ==
    <<Row(25, 50, 75, 100), Row(50, 100, 150, 200), Row(75, 150, 225, 400),
      Row(125, 250, 375, 500), Row(250, 500, 750, 1100), Row(300, 600, 900, 1400),
      Row(350, 750, 1100, 1700), Row(450, 900, 1400, 2100),
      Row(550, 1100, 1600, 2400), Row(600, 1200, 1900, 2800),
      Row(800, 1600, 2400, 3600), Row(1000, 2000, 3000, 4500),
      Row(1100, 2200, 3400, 5100), Row(1250, 2500, 3800, 5700),
      Row(1400, 2800, 4300, 6400), Row(1600, 3200, 4800, 7200),
      Row(1850, 3700, 5500, 8300), Row(2100, 4200, 6300, 9500),
      Row(2400, 4900, 7300, 10900), Row(2800, 5700, 8500, 12700)>>

\* MONSTER_MULTIPLIERS, each multiplier doubled (1.0 is 2, 1.5 is 3, ...)
MONSTER_MULTIPLIERS ==
    <<2, 3, 4, 4, 4, 4, 5, 5, 5, 5, 6, 6, 6, 6, 8>>

\* deliberately wrong variant: the default of the lookup is 1.0
MultiplierDefaultOne(total_monsters) ==
    IF total_monsters \in DOMAIN MONSTER_MULTIPLIERS
    THEN MONSTER_MULTIPLIERS[total_monsters]
    ELSE 2

\* MONSTER_MULTIPLIERS.get(total_monsters, 4.0), doubled
Multiplier(total_monsters) ==
    IF total_monsters \in DOMAIN MONSTER_MULTIPLIERS
    THEN MONSTER_MULTIPLIERS[total_monsters]
    ELSE 8

\* XP_BY_CR, keyed by 8 * CR
XP_BY_CR ==
    (0 :> 0) @@ (1 :> 25) @@ (2 :> 50) @@ (4 :> 100) @@
    (8 :> 200) @@ (16 :> 450) @@ (24 :> 700) @@ (32 :> 1100) @@
    (40 :> 1800) @@ (48 :> 2300) @@ (56 :> 2900) @@ (64 :> 3900) @@
    (72 :> 5000) @@ (80 :> 5900) @@ (88 :> 7200) @@ (96 :> 8400) @@
    (104 :> 10000) @@ (112 :> 11500) @@ (120 :> 13000) @@ (128 :> 15000) @@
    (136 :> 18000) @@ (144 :> 20000) @@ (152 :> 22000) @@ (160 :> 25000) @@
    (168 :> 33000) @@ (176 :> 41000) @@ (184 :> 50000) @@ (192 :> 62000) @@
    (200 :> 75000) @@ (208 :> 90000) @@ (216 :> 105000) @@ (224 :> 120000) @@
    (232 :> 135000) @@ (240 :> 155000)

\* XP_BY_CR.get(cr, 0)
XpForCr(cr) == IF cr \in DOMAIN XP_BY_CR THEN XP_BY_CR[cr] ELSE 0

(***************************************************************************)
(* Lines 190-199: the sums over the monster list.                          *)
(***************************************************************************)
RECURSIVE TotalBaseXp(_)
TotalBaseXp(ms) ==
    IF ms = <<>> THEN 0
    ELSE XpForCr(Head(ms).cr) * Head(ms).quantity + TotalBaseXp(Tail(ms))

RECURSIVE TotalMonsters(_)
TotalMonsters(ms) ==
    IF ms = <<>> THEN 0 ELSE Head(ms).quantity + TotalMonsters(Tail(ms))

\* deliberately wrong variant: a level below the table takes the first row
PartyThresholdsNearest(level, size) ==
    LET level_thresholds ==
            IF level \in DOMAIN XP_THRESHOLDS THEN XP_THRESHOLDS[level]
            ELSE IF level < 1 THEN XP_THRESHOLDS[1] ELSE XP_THRESHOLDS[20]
    IN  [easy |-> level_thresholds.easy * size,
         medium |-> level_thresholds.medium * size,
         hard |-> level_thresholds.hard * size,
         deadly |-> level_thresholds.deadly * size]

\* party thresholds whose deadly value is the upper end of the ideal band
PartyThresholdsDeadlyAtBand(level, size) ==
    LET level_thresholds ==
            IF level \in DOMAIN XP_THRESHOLDS THEN XP_THRESHOLDS[level]
            ELSE XP_THRESHOLDS[20]
    IN  [easy |-> level_thresholds.easy * size,
         medium |-> level_thresholds.medium * size,
         hard |-> level_thresholds.hard * size,
         deadly |-> (6 * level_thresholds.hard * size) \div 5]

\* _calculate_party_thresholds
PartyThresholds(level, size) ==
    LET level_thresholds ==
            IF level \in DOMAIN XP_THRESHOLDS THEN XP_THRESHOLDS[level]
            ELSE XP_THRESHOLDS[20]
    IN  [easy |-> level_thresholds.easy * size,
         medium |-> level_thresholds.medium * size,
         hard |-> level_thresholds.hard * size,
         deadly |-> level_thresholds.deadly * size]

\* deliberately wrong variant: the boundaries are exclusive
DetermineDifficultyExclusive(axp2, th) ==
    IF axp2 < 2 * th.easy THEN "Legkaya"
    ELSE IF axp2 < 2 * th.medium THEN "Srednyaya"
    ELSE IF axp2 < 2 * th.hard THEN "Slozhnaya"
    ELSE IF axp2 < 2 * th.deadly THEN "Opasnaya"
    ELSE "Smertelnaya"

\* _determine_difficulty; axp2 is 2 * adjusted_xp
DetermineDifficulty(axp2, th) ==
    IF axp2 <= 2 * th.easy THEN "Legkaya"
    ELSE IF axp2 <= 2 * th.medium THEN "Srednyaya"
    ELSE IF axp2 <= 2 * th.hard THEN "Slozhnaya"
    ELSE IF axp2 <= 2 * th.deadly THEN "Opasnaya"
    ELSE "Smertelnaya"

(***************************************************************************)
(* Fractions: [n |-> numerator, d |-> denominator], in lowest terms with a  *)
(* positive denominator.  A division by zero of the code shows as d = 0.   *)
(***************************************************************************)
Abs(x) == IF x < 0 THEN 0 - x ELSE x

RECURSIVE Gcd(_, _)
Gcd(a, b) == IF b = 0 THEN a ELSE Gcd(b, a % b)

Frac(n, d) ==
    IF d = 0 THEN [n |-> n, d |-> 0]
    ELSE LET g == Gcd(Abs(n), Abs(d))
         IN  [n |-> (IF d < 0 THEN 0 - n ELSE n) \div g, d |-> Abs(d) \div g]
Half == Frac(1, 2)
Sgn(x) == IF x > 0 THEN 1 ELSE IF x < 0 THEN 0 - 1 ELSE 0
\* a <= b, for fractions with non-zero denominators
FracLe(a, b) == a.n * b.d * Sgn(a.d) * Sgn(b.d) <= b.n * a.d * Sgn(a.d) * Sgn(b.d)
FracEq(a, b) == a.n * b.d = b.n * a.d
FracLt(a, b) == FracLe(a, b) /\ ~FracEq(a, b)
FracMax(a, b) == IF FracLe(a, b) THEN b ELSE a
FracMin(a, b) == IF FracLe(a, b) THEN a ELSE b

\* deliberately wrong variant: the ideal band excludes its two ends
BalanceScoreOpenBand(axp2, th) ==
    IF 8 * th.medium < 5 * axp2 /\ 5 * axp2 < 12 * th.hard
    THEN Half
    ELSE IF axp2 < 2 * th.easy
    THEN \* distance = (easy - adjusted_xp) / easy; max(0.0, 0.5 - distance * 0.5)
         FracMax(Frac(0, 1), Frac(axp2, 4 * th.easy))
    ELSE IF axp2 > 2 * th.deadly
    THEN \* distance = (adjusted_xp - deadly) / deadly;
         \* max(0.0, 0.5 - min(distance * 0.5, 0.5))
         FracMax(Frac(0, 1),
                 FracMin(Frac(4 * th.deadly - axp2, 4 * th.deadly), Half))
    ELSE IF axp2 < 2 * th.medium
    THEN \* 0.25 + (adjusted_xp - easy) / (medium - easy) * 0.25
         Frac(2 * (th.medium - th.easy) + (axp2 - 2 * th.easy),
              8 * (th.medium - th.easy))
    ELSE \* 0.5 + (adjusted_xp - medium) / (deadly - medium) * 0.25
         Frac(4 * (th.deadly - th.medium) + (axp2 - 2 * th.medium),
              8 * (th.deadly - th.medium))

\* deliberately wrong variant: the score above deadly is not floored
BalanceScoreNoFloor(axp2, th) ==
    IF 8 * th.medium <= 5 * axp2 /\ 5 * axp2 <= 12 * th.hard
    THEN Half
    ELSE IF axp2 < 2 * th.easy
    THEN \* distance = (easy - adjusted_xp) / easy; max(0.0, 0.5 - distance * 0.5)
         FracMax(Frac(0, 1), Frac(axp2, 4 * th.easy))
    ELSE IF axp2 > 2 * th.deadly
    THEN \* distance = (adjusted_xp - deadly) / deadly;
         \* max(0.0, 0.5 - min(distance * 0.5, 0.5))
         Frac(4 * th.deadly - axp2, 4 * th.deadly)
    ELSE IF axp2 < 2 * th.medium
    THEN \* 0.25 + (adjusted_xp - easy) / (medium - easy) * 0.25
         Frac(2 * (th.medium - th.easy) + (axp2 - 2 * th.easy),
              8 * (th.medium - th.easy))
    ELSE \* 0.5 + (adjusted_xp - medium) / (deadly - medium) * 0.25
         Frac(4 * (th.deadly - th.medium) + (axp2 - 2 * th.medium),
              8 * (th.deadly - th.medium))

\* deliberately wrong variant: the upper segment is scaled by hard - medium
BalanceScoreHardRange(axp2, th) ==
    IF 8 * th.medium <= 5 * axp2 /\ 5 * axp2 <= 12 * th.hard
    THEN Half
    ELSE IF axp2 < 2 * th.easy
    THEN \* distance = (easy - adjusted_xp) / easy; max(0.0, 0.5 - distance * 0.5)
         FracMax(Frac(0, 1), Frac(axp2, 4 * th.easy))
    ELSE IF axp2 > 2 * th.deadly
    THEN \* distance = (adjusted_xp - deadly) / deadly;
         \* max(0.0, 0.5 - min(distance * 0.5, 0.5))
         FracMax(Frac(0, 1),
                 FracMin(Frac(4 * th.deadly - axp2, 4 * th.deadly), Half))
    ELSE IF axp2 < 2 * th.medium
    THEN \* 0.25 + (adjusted_xp - easy) / (medium - easy) * 0.25
         Frac(2 * (th.medium - th.easy) + (axp2 - 2 * th.easy),
              8 * (th.medium - th.easy))
    ELSE \* 0.5 + (adjusted_xp - medium) / (deadly - medium) * 0.25
         Frac(4 * (th.hard - th.medium) + (axp2 - 2 * th.medium),
              8 * (th.hard - th.medium))

\* deliberately wrong variant: far above deadly the score rises again
BalanceScoreTail(axp2, th) ==
    IF 8 * th.medium <= 5 * axp2 /\ 5 * axp2 <= 12 * th.hard
    THEN Half
    ELSE IF axp2 < 2 * th.easy
    THEN FracMax(Frac(0, 1), Frac(axp2, 4 * th.easy))
    ELSE IF axp2 > 2 * th.deadly
    THEN FracMin(Frac(Abs(4 * th.deadly - axp2), 4 * th.deadly), Half)
    ELSE IF axp2 < 2 * th.medium
    THEN Frac(2 * (th.medium - th.easy) + (axp2 - 2 * th.easy),
              8 * (th.medium - th.easy))
    ELSE Frac(4 * (th.deadly - th.medium) + (axp2 - 2 * th.medium),
              8 * (th.deadly - th.medium))

\* _calculate_balance_score; axp2 is 2 * adjusted_xp
CalculateBalanceScore(axp2, th) ==
    IF 8 * th.medium <= 5 * axp2 /\ 5 * axp2 <= 12 * th.hard
    THEN Half
    ELSE IF axp2 < 2 * th.easy
    THEN \* distance = (easy - adjusted_xp) / easy; max(0.0, 0.5 - distance * 0.5)
         FracMax(Frac(0, 1), Frac(axp2, 4 * th.easy))
    ELSE IF axp2 > 2 * th.deadly
    THEN \* distance = (adjusted_xp - deadly) / deadly;
         \* max(0.0, 0.5 - min(distance * 0.5, 0.5))
         FracMax(Frac(0, 1),
                 FracMin(Frac(4 * th.deadly - axp2, 4 * th.deadly), Half))
    ELSE IF axp2 < 2 * th.medium
    THEN \* 0.25 + (adjusted_xp - easy) / (medium - easy) * 0.25
         Frac(2 * (th.medium - th.easy) + (axp2 - 2 * th.easy),
              8 * (th.medium - th.easy))
    ELSE \* 0.5 + (adjusted_xp - medium) / (deadly - medium) * 0.25
         Frac(4 * (th.deadly - th.medium) + (axp2 - 2 * th.medium),
              8 * (th.deadly - th.medium))

\* lines 340-345 and 352: cr_values holds a monster's rating once per unit of
\* its quantity, so an entry of quantity 0 contributes nothing
CrValues(ms) == {ms[i].cr : i \in {j \in DOMAIN ms : ms[j].quantity > 0}}

\* max(cr_values) if cr_values else 0 (ratings times 8)
MaxCr(ms) ==
    IF CrValues(ms) = {} THEN 0
    ELSE CHOOSE c \in CrValues(ms) : \A o \in CrValues(ms) : o <= c

\* deliberately wrong variant: consolidation is suggested from 6 monsters on
GenerateRecommendationsFromSix(ms, total_monsters, difficulty) ==
    IF total_monsters = 0 THEN <<"Dobavte boevuyu vstrechu">>
    ELSE (IF total_monsters = 1 THEN <<"Odinokij monstr">>
          ELSE IF total_monsters >= 6 THEN <<"Slishkom mnogo monstrov">>
          ELSE <<>>)
         \o (IF difficulty \in {"Legkaya", "Srednyaya"}
             THEN <<"Mozhno usilit vstrechu">>
             ELSE IF difficulty \in {"Opasnaya", "Smertelnaya"}
             THEN <<"Vstrecha slishkom slozhnaya">>
             ELSE <<>>)
         \o (IF Cardinality(CrValues(ms)) = 1 /\ total_monsters > 3
             THEN <<"Dobavte monstrov raznogo CR">> ELSE <<>>)
         \o (IF MaxCr(ms) <= 8 /\ total_monsters > 2
             THEN <<"Dobavte monstra-lidera">> ELSE <<>>)

\* _generate_recommendations (adjusted_xp and thresholds are not read)
GenerateRecommendations(ms, total_monsters, difficulty) ==
    IF total_monsters = 0 THEN <<"Dobavte boevuyu vstrechu">>
    ELSE (IF total_monsters = 1 THEN <<"Odinokij monstr">>
          ELSE IF total_monsters > 6 THEN <<"Slishkom mnogo monstrov">>
          ELSE <<>>)
         \o (IF difficulty \in {"Legkaya", "Srednyaya"}
             THEN <<"Mozhno usilit vstrechu">>
             ELSE IF difficulty \in {"Opasnaya", "Smertelnaya"}
             THEN <<"Vstrecha slishkom slozhnaya">>
             ELSE <<>>)
         \o (IF Cardinality(CrValues(ms)) = 1 /\ total_monsters > 3
             THEN <<"Dobavte monstrov raznogo CR">> ELSE <<>>)
         \o (IF MaxCr(ms) <= 8 /\ total_monsters > 2
             THEN <<"Dobavte monstra-lidera">> ELSE <<>>)

\* round(x, 3), in thousandths: the nearest.  When x is exactly halfway
\* between two thousandths, the rounding error of the float arithmetic that
\* produced x decides which of the two the code returns (0.5 - 0.975 * 0.5
\* rounds to 0.013, not to 0.012); up is that decision.
Round3(f, up) ==
    LET n == f.n * Sgn(f.d)
        d == f.d * Sgn(f.d)
        q == (1000 * n) \div d
        r == (1000 * n) % d
    IN  IF d = 0 THEN 0
        ELSE IF 2 * r > d \/ (2 * r = d /\ up) THEN q + 1 ELSE q

\* the decisions up that can matter for x: both at a tie, one otherwise
Ties(f) ==
    IF f.d # 0 /\ (2000 * f.n) % f.d = 0 /\ (1000 * f.n) % f.d # 0
    THEN BOOLEAN ELSE {FALSE}

\* lines 190-230: the uncached analysis (adjusted_xp and multiplier doubled,
\* balance_score in thousandths)
EncounterDifficulty(ms, level, size, up) ==
    LET total_base_xp == TotalBaseXp(ms)
        total_monsters == TotalMonsters(ms)
        multiplier == Multiplier(total_monsters)
        adjusted_xp == total_base_xp * multiplier
        th == PartyThresholds(level, size)
    IN  [total_monsters |-> total_monsters,
         total_base_xp |-> total_base_xp,
         multiplier |-> multiplier,
         adjusted_xp |-> adjusted_xp,
         party_xp_thresholds |-> th,
         difficulty |-> DetermineDifficulty(adjusted_xp, th),
         balance_score |-> Round3(CalculateBalanceScore(adjusted_xp, th), up),
         recommendations |->
             GenerateRecommendations(ms, total_monsters,
                                     DetermineDifficulty(adjusted_xp, th))]

\* full_analysis, line 1061: the result used when no monster was found
NoCombat == [difficulty |-> "Net boev", balance_score |-> 500]

(***************************************************************************)
(* CombatBalanceAnalyzer.extract_monsters_from_text.  The three patterns,  *)
(* matched with re.IGNORECASE:                                             *)
(*   1  \[MONSTER:\s*([^\]]+?)\s*(?:x\s*(\d+))?\s*(?:CR\s*([\d/\.]+))?\]   *)
(*   2  (W)\s*\(?(?:x\s*(\d+))?\s*,?\s*(?:CR\s*([\d/\.]+))?\)?             *)
(*      with W a run of two or more letters                                *)
(*   3  (\d+)\s+(L)\s*\(?(?:CR\s*([\d/\.]+))?\)?  with L a run of letters  *)
(* A match is [e |-> index after the match, g1, g2, g3 |-> the groups];    *)
(* a group that took no part is NoGroup, and e = 0 means no match.         *)
(***************************************************************************)
NoGroup == <<>>
NoMonsterMatch == [e |-> 0, g1 |-> NoGroup, g2 |-> NoGroup, g3 |-> NoGroup]

RatingChars == Digits \cup {"/", "."}

\* (?:x\s*(\d+))? from index i on: the index after it and the digits
XGroup(t, i) ==
    IF i <= Len(t) /\ Lower(t[i]) = "x"
    THEN LET d == RunEnd(t, i + 1, Spaces)
             e == RunEnd(t, d, Digits)
         IN  IF e > d THEN [e |-> e, g |-> SubSeq(t, d, e - 1)]
             ELSE [e |-> i, g |-> NoGroup]
    ELSE [e |-> i, g |-> NoGroup]

\* (?:CR\s*([\d/\.]+))? from index i on: the index after it and the fragment
CrGroup(t, i) ==
    IF i <= Len(t) /\ Lower(t[i]) = "cr"
    THEN LET d == RunEnd(t, i + 1, Spaces)
             e == RunEnd(t, d, RatingChars)
         IN  IF e > d THEN [e |-> e, g |-> SubSeq(t, d, e - 1)]
             ELSE [e |-> i, g |-> NoGroup]
    ELSE [e |-> i, g |-> NoGroup]

\* \s*(?:x\s*(\d+))?\s*(?:CR\s*([\d/\.]+))? matched against all of r
TagTail(r) ==
    LET x == XGroup(r, RunEnd(r, 1, Spaces))
        c == CrGroup(r, RunEnd(r, x.e, Spaces))
    IN  [ok |-> c.e = Len(r) + 1, g2 |-> x.g, g3 |-> c.g]

\* pattern 1 at index i.  Between "[MONSTER:" and the first "]" the leading
\* whitespace is skipped, group 1 is the shortest prefix of what is left
\* after which the tail matches; when only whitespace is left, \s* gives
\* back its last character to group 1.
MatchMonsterTag(t, i) ==
    IF i + 2 <= Len(t) /\ t[i] = "[" /\ Lower(t[i + 1]) = "monster" /\ t[i + 2] = ":"
    THEN LET j == RunEnd(t, i + 3, {t[k] : k \in 1..Len(t)} \ {"]"})
             s == RunEnd(t, i + 3, Spaces)
         IN  IF j > Len(t) \/ j = i + 3 THEN NoMonsterMatch
             ELSE IF s >= j
             THEN [e |-> j + 1, g1 |-> <<t[j - 1]>>, g2 |-> NoGroup, g3 |-> NoGroup]
             ELSE LET g == CHOOSE n \in s..(j - 1) :
                               /\ TagTail(SubSeq(t, n + 1, j - 1)).ok
                               /\ \A o \in s..(n - 1) : ~TagTail(SubSeq(t, o + 1, j - 1)).ok
                      tl == TagTail(SubSeq(t, g + 1, j - 1))
                  IN  [e |-> j + 1, g1 |-> SubSeq(t, s, g), g2 |-> tl.g2, g3 |-> tl.g3]
    ELSE NoMonsterMatch

\* an optional single symbol c at index i: the index after it
Opt(t, i, c) == IF i <= Len(t) /\ t[i] = c THEN i + 1 ELSE i

\* pattern 2 at index i
MatchMonsterWord(t, i) ==
    LET w == WordEnd(t, i)
    IN  IF w = 0 THEN NoMonsterMatch
        ELSE LET x == XGroup(t, Opt(t, RunEnd(t, w, Spaces), "("))
                 c == CrGroup(t, RunEnd(t, Opt(t, RunEnd(t, x.e, Spaces), ","), Spaces))
             IN  [e |-> Opt(t, c.e, ")"), g1 |-> SubSeq(t, i, w - 1),
                  g2 |-> x.g, g3 |-> c.g]

\* pattern 3 at index i
MatchMonsterCount(t, i) ==
    LET d == RunEnd(t, i, Digits)
        s == RunEnd(t, d, Spaces)
        w == RunEnd(t, s, Letters(t))
    IN  IF d = i \/ s = d \/ w = s THEN NoMonsterMatch
        ELSE LET c == CrGroup(t, Opt(t, RunEnd(t, w, Spaces), "("))
             IN  [e |-> Opt(t, c.e, ")"), g1 |-> SubSeq(t, i, d - 1),
                  g2 |-> SubSeq(t, s, w - 1), g3 |-> c.g]

MatchMonsterAt(t, i, p) ==
    CASE p = 1 -> MatchMonsterTag(t, i)
      [] p = 2 -> MatchMonsterWord(t, i)
      [] p = 3 -> MatchMonsterCount(t, i)

\* re.finditer: the matches of pattern p from index i on, each with its
\* matched text
RECURSIVE MonsterMatches(_, _, _)
MonsterMatches(t, p, i) ==
    IF i > Len(t) THEN <<>>
    ELSE Apply(LAMBDA m :
                   IF m.e = 0 THEN MonsterMatches(t, p, i + 1)
                   ELSE <<[g1 |-> m.g1, g2 |-> m.g2, g3 |-> m.g3,
                           source |-> SubSeq(t, i, m.e - 1)]>>
                        \o MonsterMatches(t, p, m.e),
               MatchMonsterAt(t, i, p))

\* KNOWN_MONSTERS in the order of the dict: the name as characters (the
\* Cyrillic names first of each pair) and the rating times 8
KNOWN_MONSTERS ==
    <<[name |-> <<"G", "O", "B", "L", "I", "N">>, cr |-> 2],
      [name |-> <<"g", "o", "b", "l", "i", "n">>, cr |-> 2],
      [name |-> <<"O", "R", "K">>, cr |-> 4],
      [name |-> <<"o", "r", "k">>, cr |-> 4],
      [name |-> <<"o", "r", "c">>, cr |-> 4],
      [name |-> <<"V", "O", "L", "K">>, cr |-> 2],
      [name |-> <<"w", "o", "l", "f">>, cr |-> 2],
      [name |-> <<"M", "E", "D", "V", "E", "D", "X">>, cr |-> 16],
      [name |-> <<"b", "e", "a", "r">>, cr |-> 16],
      [name |-> <<"T", "R", "O", "L", "L", "X">>, cr |-> 40],
      [name |-> <<"t", "r", "o", "l", "l">>, cr |-> 40],
      [name |-> <<"D", "R", "A", "K", "O", "N">>, cr |-> 80],
      [name |-> <<"d", "r", "a", "g", "o", "n">>, cr |-> 80],
      [name |-> <<"Z", "O", "M", "B", "I">>, cr |-> 2],
      [name |-> <<"z", "o", "m", "b", "i", "e">>, cr |-> 2],
      [name |-> <<"S", "K", "E", "L", "E", "T">>, cr |-> 2],
      [name |-> <<"s", "k", "e", "l", "e", "t", "o", "n">>, cr |-> 2],
      [name |-> <<"V", "A", "M", "P", "I", "R">>, cr |-> 104],
      [name |-> <<"v", "a", "m", "p", "i", "r", "e">>, cr |-> 104],
      [name |-> <<"D", "E", "M", "O", "N">>, cr |-> 64],
      [name |-> <<"d", "e", "m", "o", "n">>, cr |-> 64],
      [name |-> <<"D", "X", "Ya", "V", "O", "L">>, cr |-> 48],
      [name |-> <<"d", "e", "v", "i", "l">>, cr |-> 48],
      [name |-> <<"Eh", "L", "E", "M", "E", "N", "T", "A", "L", "X">>, cr |-> 40],
      [name |-> <<"e", "l", "e", "m", "e", "n", "t", "a", "l">>, cr |-> 40]>>

\* known_name in monster_name
NameContains(name, known) == Occurs(Chars(name), known)

\* KNOWN_MONSTERS.get(monster_name, 0.5): the name has to be the key itself
KnownGet(name) ==
    LET hit == {k \in DOMAIN KNOWN_MONSTERS : Chars(name) = KNOWN_MONSTERS[k].name}
    IN  IF hit = {} THEN 4 ELSE KNOWN_MONSTERS[CHOOSE k \in hit : TRUE].cr

\* lines 423-428: the rating of the first known name the name contains
KnownSearch(name) ==
    LET hit == {k \in DOMAIN KNOWN_MONSTERS : NameContains(name, KNOWN_MONSTERS[k].name)}
    IN  IF hit = {} THEN 4
        ELSE KNOWN_MONSTERS[CHOOSE k \in hit : \A o \in hit : k <= o].cr

DigitValue(c) ==
    CASE c = "0" -> 0 [] c = "1" -> 1 [] c = "2" -> 2
      [] c = "3" -> 3 [] c = "4" -> 4 [] c = "5" -> 5

\* int(s) of a string of digits
RECURSIVE IntOf(_)
IntOf(q) ==
    IF q = <<>> THEN 0
    ELSE 10 * IntOf(SubSeq(q, 1, Len(q) - 1)) + DigitValue(q[Len(q)])

\* float(s) for s over digits and "."; ok = FALSE is a ValueError
Float(q) ==
    LET dots == {k \in DOMAIN q : q[k] = "."}
        digs == SelectSeq(q, LAMBDA c : c \in Digits)
    IN  IF Cardinality(dots) > 1 \/ digs = <<>> \/ Len(digs) + Cardinality(dots) # Len(q)
        THEN [ok |-> FALSE, v |-> Frac(0, 1)]
        ELSE [ok |-> TRUE,
              v |-> Frac(IntOf(digs),
                         10 ^ (IF dots = {} THEN 0
                               ELSE Len(q) - (CHOOSE k \in dots : TRUE)))]

\* s.split('/')
RECURSIVE Split(_, _)
Split(q, c) ==
    LET hit == {k \in DOMAIN q : q[k] = c}
    IN  IF hit = {} THEN <<q>>
        ELSE LET k == CHOOSE h \in hit : \A o \in hit : h <= o
             IN  <<SubSeq(q, 1, k - 1)>> \o Split(SubSeq(q, k + 1, Len(q)), c)

\* a rating as the calculator holds it, times 8
Times8(f) == (8 * f.n) \div f.d

\* lines 413-415: the rating num/denom of the parts of a fragment with "/"
RatioCr(parts, monster_name) ==
    IF Len(parts) # 2 THEN [raised |-> "", cr |-> KnownGet(monster_name)]
    ELSE Apply(LAMBDA num :
             Apply(LAMBDA denom :
                 IF ~num.ok \/ ~denom.ok
                 THEN [raised |-> "", cr |-> KnownGet(monster_name)]
                 ELSE IF denom.v.n = 0
                 THEN [raised |-> "ZeroDivisionError", cr |-> 0]
                 ELSE [raised |-> "",
                       cr |-> Times8(Frac(num.v.n * denom.v.d, num.v.d * denom.v.n))],
                 Float(parts[2])),
             Float(parts[1]))

\* lines 410-428: the rating of a match; raised names the exception that
\* leaves the function ("" when there is none)
MonsterCr(cr_from_text, monster_name) ==
    IF cr_from_text # NoGroup
    THEN IF "/" \in {cr_from_text[k] : k \in DOMAIN cr_from_text}
         THEN RatioCr(Split(cr_from_text, "/"), monster_name)
         ELSE Apply(LAMBDA cr :
                        IF cr.ok THEN [raised |-> "", cr |-> Times8(cr.v)]
                        ELSE [raised |-> "", cr |-> KnownGet(monster_name)],
                    Float(cr_from_text))
    ELSE [raised |-> "", cr |-> KnownSearch(monster_name)]

\* lines 431-434: int(quantity), 1 when the group is missing or no number
MonsterQuantity(g2) ==
    IF g2 # NoGroup /\ \A k \in DOMAIN g2 : g2[k] \in Digits THEN IntOf(g2) ELSE 1

\* str.title(): every run of letters starts with a capital
Title(q) ==
    [k \in DOMAIN q |->
        IF q[k] \notin Punct /\ (k = 1 \/ q[k - 1] \in Punct) THEN Cap(q[k]) ELSE q[k]]

\* lines 406-441 for one match and its name
MonsterNamed(m, monster_name) ==
    Apply(LAMBDA c :
              [raised |-> c.raised,
               monster |-> [name |-> Title(monster_name),
                            quantity |-> MonsterQuantity(m.g2),
                            cr |-> c.cr,
                            xp |-> XpForCr(c.cr),
                            source |-> m.source]],
          MonsterCr(m.g3, monster_name))

\* line 404: monster_name = match.group(1).strip().lower()
LowerSeq(q) == [k \in DOMAIN q |-> Lower(q[k])]

\* lines 403-441 for one match
MonsterOf(m) == MonsterNamed(m, LowerSeq(Strip(m.g1)))

MonsterKey(mo) == <<mo.name, mo.cr>>

\* lines 443-451: the first monster of every (name, cr)
RECURSIVE UniqueMonstersFrom(_, _)
UniqueMonstersFrom(ms, seen) ==
    IF ms = <<>> THEN <<>>
    ELSE IF MonsterKey(Head(ms)) \in seen
         THEN UniqueMonstersFrom(Tail(ms), seen)
         ELSE <<Head(ms)>>
              \o UniqueMonstersFrom(Tail(ms), seen \cup {MonsterKey(Head(ms))})

\* lines 443-453, and the exception of a match leaving the function
MonstersFound(found) ==
    IF \E k \in DOMAIN found : found[k].raised # ""
    THEN [raised |-> "ZeroDivisionError", monsters |-> <<>>]
    ELSE [raised |-> "",
          monsters |-> UniqueMonstersFrom([k \in DOMAIN found |-> found[k].monster], {})]

\* lines 398-441: the monster, or the exception, of every match
MonstersMatched(matches) == MonstersFound([k \in DOMAIN matches |-> MonsterOf(matches[k])])

\* extract_monsters_from_text: the list returned, or the exception raised
ExtractMonstersFromText(t) ==
    MonstersMatched(MonsterMatches(t, 1, 1) \o MonsterMatches(t, 2, 1)
                        \o MonsterMatches(t, 3, 1))

(***************************************************************************)
(* SpecCombat: calculate_encounter_difficulty called directly, and through *)
(* full_analysis (which calls it only for a non-empty monster list), on    *)
(* every monster list, party level and party size of the bounds.           *)
(***************************************************************************)
MaxMonsters == 2
MaxQuantity == 8
MaxPartySize == 2
MaxPartyLevel == 21

\* ratings of the inputs (times 8): 1/4, 2 and 3/8, which is no key of XP_BY_CR
Ratings == {2, 16, 3}
Monster == [cr : Ratings, quantity : 0..MaxQuantity]
\* The sums of lines 194-199 do not depend on the order of the list, so the
\* lists are taken up to reordering: entries in non-decreasing (cr, quantity).
MonsterLe(a, b) == a.cr < b.cr \/ (a.cr = b.cr /\ a.quantity <= b.quantity)
MonsterLists ==
    {ms \in UNION {[1..k -> Monster] : k \in 0..MaxMonsters} :
        \A i \in 1..(Len(ms) - 1) : MonsterLe(ms[i], ms[i + 1])}
PartyLevels == (0 - 1)..MaxPartyLevel
PartySizes == 1..MaxPartySize

NoResult == [difficulty |-> "none"]
NoScore == Frac(0, 1)

NoCall == [op |-> "none"]

ReportIdle ==
    /\ scenario = <<>>
    /\ report = <<>>
    /\ rpc = "off"

ApiIdle ==
    /\ api_cache = <<>>
    /\ api_last = NoCall

FavoriteIdle ==
    /\ favorites = 0
    /\ favorite_rows = {}
    /\ req = <<>>

WebIdle == ApiIdle /\ FavoriteIdle

CacheIdle ==
    /\ text_cache = <<>>
    /\ combat_cache = <<>>
    /\ hash_of = <<>>
    /\ last = NoCall
    /\ thr = <<>>

CombatIdle ==
    /\ monsters = <<>>
    /\ party_level = 0
    /\ party_size = 0
    /\ combat = NoResult
    /\ score = NoScore
    /\ cpc = "off"

InitCombat ==
    /\ monsters \in MonsterLists
    /\ party_level \in PartyLevels
    /\ party_size \in PartySizes
    /\ combat = NoResult
    /\ score = NoScore
    /\ cpc = "input"
    /\ ExtractIdle
    /\ CacheIdle
    /\ ReportIdle
    /\ WebIdle

\* a direct call of calculate_encounter_difficulty (cache empty)
CalculateEncounterDifficulty ==
    /\ cpc = "input"
    /\ score' = CalculateBalanceScore(
                    TotalBaseXp(monsters) * Multiplier(TotalMonsters(monsters)),
                    PartyThresholds(party_level, party_size))
    /\ \E up \in Ties(score') :
          combat' = EncounterDifficulty(monsters, party_level, party_size, up)
    /\ cpc' = "done"
    /\ UNCHANGED <<monsters, party_level, party_size, extractVars, cacheVars, reportVars, webVars>>

\* full_analysis, lines 1058-1061
FullAnalysisCombat ==
    /\ cpc = "input"
    /\ IF monsters # <<>>
       THEN /\ score' = CalculateBalanceScore(
                            TotalBaseXp(monsters) * Multiplier(TotalMonsters(monsters)),
                            PartyThresholds(party_level, party_size))
            /\ \E up \in Ties(score') :
                  combat' = EncounterDifficulty(monsters, party_level, party_size, up)
       ELSE /\ combat' = NoCombat
            /\ score' = Half
    /\ cpc' = "done"
    /\ UNCHANGED <<monsters, party_level, party_size, extractVars, cacheVars, reportVars, webVars>>

NextCombat == CalculateEncounterDifficulty \/ FullAnalysisCombat

SpecCombat == InitCombat /\ [][NextCombat]_vars

(***************************************************************************)
(* Claims about the calculator, checked under SpecCombat.                  *)
(***************************************************************************)
Calculated == cpc = "done" /\ combat # NoCombat

\* C5: the multiplier is 1.0 for one monster, 1.5 for two, 2.0 for 3..6,
\* 2.5 for 7..10, 3.0 for 11..14 and 4.0 for 15 or more, and adjusted_xp is
\* total_base_xp times the multiplier (both held doubled).
C5_MultiplierByCount ==
    Calculated =>
        LET n == combat.total_monsters
        IN  /\ n = TotalMonsters(monsters)
            /\ n = 1 => combat.multiplier = 2
            /\ n = 2 => combat.multiplier = 3
            /\ n \in 3..6 => combat.multiplier = 4
            /\ n \in 7..10 => combat.multiplier = 5
            /\ n \in 11..14 => combat.multiplier = 6
            /\ n >= 15 => combat.multiplier = 8
            /\ combat.adjusted_xp = combat.total_base_xp * combat.multiplier

C5_Witness ==
    /\ Calculated
    /\ combat.total_monsters > 15
    /\ combat.multiplier = 8
    /\ combat.adjusted_xp > 0

\* C6: for a level in 1..20 each party threshold is the level's table value
\* times party_size; for any other level the row of level 20 is used.
C6_PartyThresholds ==
    Calculated =>
        LET row == IF party_level \in 1..20 THEN XP_THRESHOLDS[party_level]
                   ELSE XP_THRESHOLDS[20]
            th == combat.party_xp_thresholds
        IN  /\ th.easy = row.easy * party_size
            /\ th.medium = row.medium * party_size
            /\ th.hard = row.hard * party_size
            /\ th.deadly = row.deadly * party_size

C6_Witness ==
    /\ Calculated
    /\ party_level < 1
    /\ party_size = 2
    /\ combat.party_xp_thresholds = Row(5600, 11400, 17000, 25400)

\* C7: the tier is the first of easy, medium, hard, deadly whose threshold
\* adjusted_xp does not exceed (a value equal to a threshold gets that tier),
\* and the last tier exactly when adjusted_xp is above the deadly threshold.
C7_DifficultyTier ==
    Calculated =>
        LET a == combat.adjusted_xp
            th == combat.party_xp_thresholds
            d == combat.difficulty
        IN  /\ d = "Legkaya" <=> a <= 2 * th.easy
            /\ d = "Srednyaya" <=> (a > 2 * th.easy /\ a <= 2 * th.medium)
            /\ d = "Slozhnaya" <=> (a > 2 * th.medium /\ a <= 2 * th.hard)
            /\ d = "Opasnaya" <=> (a > 2 * th.hard /\ a <= 2 * th.deadly)
            /\ d = "Smertelnaya" <=> a > 2 * th.deadly

C7_Witness ==
    /\ Calculated
    /\ combat.adjusted_xp = 2 * combat.party_xp_thresholds.deadly
    /\ combat.difficulty = "Opasnaya"

InIdealBand ==
    /\ 8 * combat.party_xp_thresholds.medium <= 5 * combat.adjusted_xp
    /\ 5 * combat.adjusted_xp <= 12 * combat.party_xp_thresholds.hard

\* C8: whenever 0.8 * medium <= adjusted_xp <= 1.2 * hard, both ends
\* included, the balance score is exactly 0.5.
C8_IdealBandScore ==
    Calculated /\ InIdealBand =>
        /\ score.d # 0
        /\ score = Half
        /\ combat.balance_score = 500

C8_Witness ==
    /\ Calculated
    /\ 8 * combat.party_xp_thresholds.medium = 5 * combat.adjusted_xp
    /\ combat.balance_score = 500

\* C9: the balance score returned is in [0, 1] and no division is by zero,
\* for the calculator and for the "no combat" result of full_analysis.
C9_ScoreInUnitInterval ==
    cpc = "done" =>
        /\ score.d # 0
        /\ FracLe(Frac(0, 1), score)
        /\ FracLe(score, Frac(1, 1))
        /\ combat.balance_score \in 0..1000

C9_Witness ==
    /\ Calculated
    /\ combat.adjusted_xp > 4 * combat.party_xp_thresholds.deadly
    /\ combat.balance_score = 0

\* C10: outside the ideal band, for easy <= adjusted_xp < medium the score is
\* 0.25 + 0.25 * (adjusted_xp - easy) / (medium - easy), in [0.25, 0.5), and
\* for medium <= adjusted_xp <= deadly it is
\* 0.5 + 0.25 * (adjusted_xp - medium) / (deadly - medium), in [0.5, 0.75].
C10_Interpolation ==
    Calculated /\ ~InIdealBand =>
        LET a == combat.adjusted_xp
            th == combat.party_xp_thresholds
        IN  /\ (2 * th.easy <= a /\ a < 2 * th.medium) =>
                  /\ score.d # 0
                  /\ score = Frac(2 * (th.medium - th.easy) + (a - 2 * th.easy),
                                  8 * (th.medium - th.easy))
                  /\ FracLe(Frac(1, 4), score)
                  /\ FracLt(score, Half)
            /\ (2 * th.medium <= a /\ a <= 2 * th.deadly) =>
                  /\ score.d # 0
                  /\ score = Frac(4 * (th.deadly - th.medium) + (a - 2 * th.medium),
                                  8 * (th.deadly - th.medium))
                  /\ FracLe(Half, score)
                  /\ FracLe(score, Frac(3, 4))

C10_Witness ==
    /\ Calculated
    /\ ~InIdealBand
    /\ combat.adjusted_xp > 2 * combat.party_xp_thresholds.medium
    /\ combat.adjusted_xp < 2 * combat.party_xp_thresholds.deadly
    /\ FracLt(Half, score)

\* doubled adjusted_xp of the one-entry monster lists: the amounts a score is
\* compared with
OtherAdjustedXps ==
    {TotalBaseXp(<<m>>) * Multiplier(TotalMonsters(<<m>>)) : m \in Monster}

\* a <= b for two normalised fractions whose denominators are positive
ScoreLe(a, b) ==
    LET g == Gcd(a.d, b.d)
    IN  a.n * (b.d \div g) <= b.n * (a.d \div g)

\* C11: above deadly the score is
\* max(0, 0.5 - min(0.5 * (adjusted_xp - deadly) / deadly, 0.5)); it does not
\* increase when adjusted_xp increases, and it is 0 from 2 * deadly on.
C11_AboveDeadlyDecay ==
    (Calculated /\ combat.adjusted_xp > 2 * combat.party_xp_thresholds.deadly) =>
        LET a == combat.adjusted_xp
            th == combat.party_xp_thresholds
            m == FracMin(Frac(a - 2 * th.deadly, 4 * th.deadly), Half)
        IN  /\ score.d > 0
            /\ score = FracMax(Frac(0, 1), Frac(m.d - 2 * m.n, 2 * m.d))
            /\ a >= 4 * th.deadly => score = Frac(0, 1) /\ combat.balance_score = 0
            /\ \A b \in OtherAdjustedXps :
                  b >= a => /\ CalculateBalanceScore(b, th).d > 0
                            /\ ScoreLe(CalculateBalanceScore(b, th), score)

\* a score strictly between 0 and 0.5 above deadly, with a larger amount
\* among those compared
C11_Witness ==
    /\ Calculated
    /\ combat.adjusted_xp > 2 * combat.party_xp_thresholds.deadly
    /\ combat.adjusted_xp < 4 * combat.party_xp_thresholds.deadly
    /\ combat.balance_score \in 1..499
    /\ \E b \in OtherAdjustedXps : b > 4 * combat.party_xp_thresholds.deadly

\* the recommendations as a set
Recommended == {combat.recommendations[i] : i \in DOMAIN combat.recommendations}

\* C12: with no monster the only recommendation is to add an encounter;
\* otherwise reinforcement iff one monster, consolidation iff more than 6,
\* escalation iff the difficulty is one of the two lowest tiers, the warning
\* iff it is one of the two highest, variety iff the monsters have one rating
\* and are more than 3, a leader iff no monster is rated above 1 and they are
\* more than 2; nothing else, and nothing twice.
C12_Recommendations ==
    Calculated =>
        LET n == TotalMonsters(monsters)
            present == {i \in DOMAIN monsters : monsters[i].quantity > 0}
            ratings == {monsters[i].cr : i \in present}
            d == combat.difficulty
        IN  /\ Len(combat.recommendations) = Cardinality(Recommended)
            /\ n = 0 => combat.recommendations = <<"Dobavte boevuyu vstrechu">>
            /\ n # 0 =>
                 /\ Recommended \subseteq
                       {"Odinokij monstr", "Slishkom mnogo monstrov",
                        "Mozhno usilit vstrechu", "Vstrecha slishkom slozhnaya",
                        "Dobavte monstrov raznogo CR", "Dobavte monstra-lidera"}
                 /\ "Odinokij monstr" \in Recommended <=> n = 1
                 /\ "Slishkom mnogo monstrov" \in Recommended <=> n > 6
                 /\ "Mozhno usilit vstrechu" \in Recommended
                       <=> d \in {"Legkaya", "Srednyaya"}
                 /\ "Vstrecha slishkom slozhnaya" \in Recommended
                       <=> d \in {"Opasnaya", "Smertelnaya"}
                 /\ "Dobavte monstrov raznogo CR" \in Recommended
                       <=> (Cardinality(ratings) = 1 /\ n > 3)
                 /\ "Dobavte monstra-lidera" \in Recommended
                       <=> ((\A i \in present : monsters[i].cr <= 8) /\ n > 2)

\* six monsters of two ratings, none above 1, a hard encounter: only the
\* leader is recommended
C12_Witness ==
    /\ Calculated
    /\ TotalMonsters(monsters) = 6
    /\ combat.difficulty = "Slozhnaya"
    /\ combat.recommendations = <<"Dobavte monstra-lidera">>

(***************************************************************************)
(* SpecExtract: extract_elements applied to every text up to MaxTextLen    *)
(* over Alphabet.                                                          *)
(***************************************************************************)
Alphabet == {"[", "]", ":", " ", "NPC", "a", "Bob", "zovut"}

\* the texts of up to n symbols over the symbols A
TextsOver(A, n) == UNION {[1..k -> A] : k \in 0..n}

TextsUpTo(n) == TextsOver(Alphabet, n)

InitExtract ==
    /\ text \in TextsUpTo(MaxTextLen)
    /\ elements = NoElements
    /\ epc = "input"
    /\ CombatIdle
    /\ CacheIdle
    /\ ReportIdle
    /\ WebIdle

ExtractElements ==
    /\ epc = "input"
    /\ elements' = ComputeElements(text)
    /\ epc' = "done"
    /\ UNCHANGED <<text, combatVars, cacheVars, reportVars, webVars>>

NextExtract == ExtractElements

SpecExtract == InitExtract /\ [][NextExtract]_vars

\* the indices of the candidates that are first with their (name, start_pos)
FirstOccurrences(c) ==
    {i \in 1..Len(c) : \A k \in 1..(i - 1) : ElemKey(c[k]) # ElemKey(c[i])}

\* C4: in every type's list no two elements have the same (name, start_pos),
\* and the list is the candidates in pattern-then-match order with, of the
\* candidates that collide, only the first one kept.
C4_UniqueNameAndStart ==
    epc = "done" =>
        \A ty \in DOMAIN elements :
            LET l == elements[ty]
                c == TypeCandidates(text, ty)
                first == FirstOccurrences(c)
            IN  /\ \A i, j \in 1..Len(l) :
                      i < j => ElemKey(l[i]) # ElemKey(l[j])
                /\ Len(l) = Cardinality(first)
                /\ \A i \in first :
                      l[Cardinality({k \in first : k <= i})] = c[i]

\* two elements of one type with the same name, found at different places
C4_Witness ==
    /\ epc = "done"
    /\ \E ty \in DOMAIN elements :
          \E i, j \in 1..Len(elements[ty]) :
              /\ i < j
              /\ elements[ty][i].name = elements[ty][j].name
              /\ elements[ty][i].start_pos # elements[ty][j].start_pos

(***************************************************************************)
(* The two caches.  extract_elements keys its cache by the text itself;    *)
(* calculate_encounter_difficulty keys its cache by                        *)
(* f"{hash(str(monsters))}_{party_level}_{party_size}" (line 186).  The    *)
(* string hash of a process is some function into the integers of the hash *)
(* width (64 bits in CPython, HashBits here): hash_of is that function on  *)
(* the monster lists of the calls, fixed when the process starts.          *)
(***************************************************************************)
HashBits == 1
HashSpace == 2 ^ HashBits

SampleTexts ==
    {<<>>,
     <<"NPC", ":", "Bob">>,
     <<" ", "NPC", ":", "Bob">>,
     <<"[", "PUZZLE", ":", "a", "a", "]", " ", "zovut", " ", "Bob">>}

SampleMonsterLists ==
    {<<[cr |-> 2, quantity |-> 3]>>,
     <<[cr |-> 16, quantity |-> 1], [cr |-> 2, quantity |-> 2]>>}
SampleLevels == {3, 5}
SampleSizes == {4}

\* line 186: the cache key of a call
CacheKey(ms, level, size) == <<hash_of[ms], level, size>>

\* deliberately wrong variant: the cache is keyed by the stripped text
ExtractElementsStrippedKey(cache, t) ==
    IF Strip(t) \in DOMAIN cache
    THEN [ret |-> cache[Strip(t)], cache |-> cache, hit |-> TRUE]
    ELSE [ret |-> ComputeElements(t),
          cache |-> (Strip(t) :> ComputeElements(t)) @@ cache,
          hit |-> FALSE]

\* extract_elements, lines 59-91, on a cache: what it returns and the cache
\* it leaves
ExtractElementsCached(cache, t) ==
    IF t \in DOMAIN cache
    THEN [ret |-> cache[t], cache |-> cache, hit |-> TRUE]
    ELSE [ret |-> ComputeElements(t),
          cache |-> (t :> ComputeElements(t)) @@ cache,
          hit |-> FALSE]

\* the uncached analysis of a call (the monster lists of the calls have no
\* rounding tie)
Analysis(ms, level, size) == EncounterDifficulty(ms, level, size, FALSE)

\* calculate_encounter_difficulty, lines 186-233, on a cache
DifficultyCached(cache, ms, level, size) ==
    LET cache_key == CacheKey(ms, level, size)
    IN  IF cache_key \in DOMAIN cache
        THEN [ret |-> cache[cache_key], cache |-> cache, hit |-> TRUE]
        ELSE [ret |-> Analysis(ms, level, size),
              cache |-> (cache_key :> Analysis(ms, level, size)) @@ cache,
              hit |-> FALSE]

InitCaches ==
    /\ text_cache = <<>>
    /\ combat_cache = <<>>
    /\ hash_of \in [SampleMonsterLists -> 0..(HashSpace - 1)]

(***************************************************************************)
(* SpecSeq: one analyzer of each kind, called again and again, one call at *)
(* a time.                                                                 *)
(***************************************************************************)
InitSeq ==
    /\ InitCaches
    /\ last = NoCall
    /\ thr = <<>>
    /\ ExtractIdle
    /\ CombatIdle
    /\ ReportIdle
    /\ WebIdle

ExtractElementsCall ==
    \E t \in SampleTexts :
        \E c \in {ExtractElementsCached(text_cache, t)} :
            /\ text_cache' = c.cache
            /\ last' = [op |-> "extract_elements", arg |-> t,
                        ret |-> c.ret, hit |-> c.hit]
            /\ UNCHANGED <<combat_cache, hash_of, thr, extractVars, combatVars, reportVars, webVars>>

DifficultyCall ==
    \E ms \in SampleMonsterLists, level \in SampleLevels, size \in SampleSizes :
        \E c \in {DifficultyCached(combat_cache, ms, level, size)} :
            /\ combat_cache' = c.cache
            /\ last' = [op |-> "calculate_encounter_difficulty",
                        arg |-> <<ms, level, size>>,
                        ret |-> c.ret, hit |-> c.hit]
            /\ UNCHANGED <<text_cache, hash_of, thr, extractVars, combatVars, reportVars, webVars>>

NextSeq == ExtractElementsCall \/ DifficultyCall

SpecSeq == InitSeq /\ [][NextSeq]_vars

\* C1: whether a call of extract_elements was a cache miss or a cache hit,
\* it returns for its text what an analyzer with an empty cache returns.
C1_HitEqualsMiss ==
    last.op = "extract_elements" =>
        /\ last.ret = ComputeElements(last.arg)
        /\ last.ret = ExtractElementsCached(<<>>, last.arg).ret

\* a cache hit that returns elements, in a cache that holds other texts too
C1_Witness ==
    /\ last.op = "extract_elements"
    /\ last.hit
    /\ last.ret # NoElements
    /\ Cardinality(DOMAIN text_cache) >= 3

\* C3 (as claimed): every call of calculate_encounter_difficulty returns the
\* uncached analysis of its own (monsters, party_level, party_size).
C3_ReturnsOwnAnalysis ==
    last.op = "calculate_encounter_difficulty" =>
        last.ret = Analysis(last.arg[1], last.arg[2], last.arg[3])

\* C3 (as claimed), second part: a key once present stays, with its value.
C3_CacheOnlyGrows ==
    [][\A k \in DOMAIN combat_cache :
          k \in DOMAIN combat_cache' /\ combat_cache'[k] = combat_cache[k]]_vars

(***************************************************************************)
(* SpecConc: threads sharing the two caches, each call in the steps        *)
(* check-cache / compute / write-cache / return.                           *)
(***************************************************************************)
NumThreads == 2
Threads == 1..NumThreads

\* the calls the threads make: two texts, and the monster lists for one party
ConcTexts == {<<"NPC", ":", "Bob">>, <<" ", "NPC", ":", "Bob">>}
ConcLevels == {3}

Calls ==
    {[op |-> "extract_elements", arg |-> t] : t \in ConcTexts}
        \cup {[op |-> "calculate_encounter_difficulty", arg |-> <<ms, level, size>>] :
                 ms \in SampleMonsterLists, level \in ConcLevels,
                 size \in SampleSizes}

None == <<"none">>
Idle == [pc |-> "idle", op |-> "none", arg |-> None, local |-> None, ret |-> None]

IsExtract(c) == c.op = "extract_elements"
KeyOf(c) == IF IsExtract(c) THEN c.arg ELSE CacheKey(c.arg[1], c.arg[2], c.arg[3])
CacheOf(c) == IF IsExtract(c) THEN text_cache ELSE combat_cache
Uncached(c) ==
    IF IsExtract(c) THEN ComputeElements(c.arg)
    ELSE Analysis(c.arg[1], c.arg[2], c.arg[3])

InitConc ==
    /\ InitCaches
    /\ last = NoCall
    /\ thr = [i \in Threads |-> Idle]
    /\ ExtractIdle
    /\ CombatIdle
    /\ ReportIdle
    /\ WebIdle

\* a thread enters extract_elements or calculate_encounter_difficulty
Call(i) ==
    /\ thr[i].pc \in {"idle", "done"}
    /\ \E c \in Calls :
          thr' = [thr EXCEPT ![i] = [pc |-> "check", op |-> c.op, arg |-> c.arg,
                                     local |-> None, ret |-> None]]
    /\ UNCHANGED <<text_cache, combat_cache, hash_of, last, extractVars, combatVars, reportVars, webVars>>

\* lines 59-60 and 187-188: the lookup, returning on a hit
CheckCache(i) ==
    /\ thr[i].pc = "check"
    /\ IF KeyOf(thr[i]) \in DOMAIN CacheOf(thr[i])
       THEN thr' = [thr EXCEPT ![i].pc = "done",
                               ![i].ret = CacheOf(thr[i])[KeyOf(thr[i])]]
       ELSE thr' = [thr EXCEPT ![i].pc = "compute"]
    /\ UNCHANGED <<text_cache, combat_cache, hash_of, last, extractVars, combatVars, reportVars, webVars>>

\* lines 62-88 and 190-230
Compute(i) ==
    /\ thr[i].pc = "compute"
    /\ thr' = [thr EXCEPT ![i].pc = "write", ![i].local = Uncached(thr[i])]
    /\ UNCHANGED <<text_cache, combat_cache, hash_of, last, extractVars, combatVars, reportVars, webVars>>

\* lines 90 and 232
WriteCache(i) ==
    /\ thr[i].pc = "write"
    /\ IF IsExtract(thr[i])
       THEN /\ text_cache' = (KeyOf(thr[i]) :> thr[i].local) @@ text_cache
            /\ UNCHANGED combat_cache
       ELSE /\ combat_cache' = (KeyOf(thr[i]) :> thr[i].local) @@ combat_cache
            /\ UNCHANGED text_cache
    /\ thr' = [thr EXCEPT ![i].pc = "return"]
    /\ UNCHANGED <<hash_of, last, extractVars, combatVars, reportVars, webVars>>

\* lines 91 and 233
Return(i) ==
    /\ thr[i].pc = "return"
    /\ thr' = [thr EXCEPT ![i].pc = "done", ![i].ret = thr[i].local]
    /\ UNCHANGED <<text_cache, combat_cache, hash_of, last, extractVars, combatVars, reportVars, webVars>>

NextConc ==
    \E i \in Threads :
        Call(i) \/ CheckCache(i) \/ Compute(i) \/ WriteCache(i) \/ Return(i)

SpecConc == InitConc /\ [][NextConc]_vars

\* C2 (as claimed): every call returns the result that belongs to its own
\* input, and a write to a key already present stores the value already there.
C2_OwnResultAndIdempotentWrites ==
    \A i \in DOMAIN thr :
        /\ thr[i].pc = "done" => thr[i].ret = Uncached(thr[i])
        /\ (thr[i].pc = "write" /\ KeyOf(thr[i]) \in DOMAIN CacheOf(thr[i])) =>
              CacheOf(thr[i])[KeyOf(thr[i])] = thr[i].local

\* the part of C2 about extract_elements alone
C2_ExtractElementsPart ==
    \A i \in DOMAIN thr :
        IsExtract(thr[i]) =>
            /\ thr[i].pc = "done" => thr[i].ret = Uncached(thr[i])
            /\ (thr[i].pc = "write" /\ KeyOf(thr[i]) \in DOMAIN text_cache) =>
                  text_cache[KeyOf(thr[i])] = thr[i].local

\* two threads miss on the same text and the second writes over the first
C2_ExtractElementsRace ==
    \E i \in DOMAIN thr :
        /\ IsExtract(thr[i])
        /\ thr[i].pc = "write"
        /\ KeyOf(thr[i]) \in DOMAIN text_cache

(***************************************************************************)
(* Arithmetic on fractions, for the scores of the puzzle and narrative     *)
(* analyzers.                                                              *)
(***************************************************************************)
FracAdd(a, b) == Frac(a.n * b.d + b.n * a.d, a.d * b.d)
FracSub(a, b) == Frac(a.n * b.d - b.n * a.d, a.d * b.d)
FracMul(a, b) == Frac(a.n * b.n, a.d * b.d)
Zero == Frac(0, 1)
One == Frac(1, 1)

RECURSIVE Sum(_)
Sum(q) == IF q = <<>> THEN 0 ELSE Head(q) + Sum(Tail(q))

Elems(q) == {q[k] : k \in DOMAIN q}

(***************************************************************************)
(* PuzzleAnalyzer.                                                         *)
(***************************************************************************)
\* str.split(): the maximal runs of symbols that are no whitespace
RECURSIVE SplitWords(_)
SplitWords(q) ==
    LET r == LStrip(q)
        e == RunEnd(r, 1, Elems(r) \ Spaces)
    IN  IF r = <<>> THEN <<>>
        ELSE <<SubSeq(r, 1, e - 1)>> \o SplitWords(SubSeq(r, e, Len(r)))

Terminators == {".", "!", "?"}

\* re.split(r'[.!?]+', text): the pieces between the runs of terminators
RECURSIVE SplitAtTerminators(_)
SplitAtTerminators(q) ==
    LET e == RunEnd(q, 1, Elems(q) \ Terminators)
        n == RunEnd(q, e, Terminators)
    IN  IF e > Len(q) THEN <<q>>
        ELSE <<SubSeq(q, 1, e - 1)>> \o SplitAtTerminators(SubSeq(q, n, Len(q)))

\* [s.strip() for s in sentences if s.strip()]
StrippedNonEmpty(qs) ==
    LET kept == SelectSeq(qs, LAMBDA s : Strip(s) # <<>>)
    IN  [k \in DOMAIN kept |-> Strip(kept[k])]

PuzzleSentences(t) == StrippedNonEmpty(SplitAtTerminators(t))

\* _calculate_text_metrics
CalculatePuzzleMetrics(t) ==
    LET words == SplitWords(t)
        sentences == PuzzleSentences(t)
        question_count ==
            Len(SelectSeq(sentences, LAMBDA s : s[Len(s)] = "?"))
        complex_words == SelectSeq(words, LAMBDA w : SeqWidth(w) > 7)
        nw == IF Len(words) > 1 THEN Len(words) ELSE 1
        ns == IF Len(sentences) > 1 THEN Len(sentences) ELSE 1
    IN  [word_count |-> Len(words),
         sentence_count |-> Len(sentences),
         question_count |-> question_count,
         avg_word_length |-> Frac(Sum([k \in DOMAIN words |-> SeqWidth(words[k])]), nw),
         complex_word_ratio |-> Frac(Len(complex_words), nw),
         lexical_diversity |-> Frac(Cardinality(Elems(words)), nw),
         question_ratio |-> Frac(question_count, ns)]

\* complexity_keywords, per level with the weight of the level in quarters
ComplexityKeywords ==
    <<[weight |-> 1,
       keywords |-> {"prostoj", "legkij", "ochevidnyj", "pryamoj", "yasnyj"}],
      [weight |-> 2,
       keywords |-> {"srednij", "umerennyj", "logichnyj", "standartnyj", "tipichnyj"}],
      [weight |-> 3,
       keywords |-> {"slozhnyj", "trudnyj", "zaputannyj", "hitryj", "zamyslovatyj"}],
      [weight |-> 4,
       keywords |-> {"ekspertnyj", "golovolomnyj", "zagadochnyj", "neochevidnyj",
                     "skrytyj"}]>>

\* keyword in text_lower, for a keyword that is a symbol
Has(t, keyword) == Occurs(Chars(t), Spell(keyword))

\* _analyze_keywords
AnalyzeKeywords(t) ==
    LET quarters ==
            Sum([l \in DOMAIN ComplexityKeywords |->
                    ComplexityKeywords[l].weight
                        * Cardinality({w \in ComplexityKeywords[l].keywords : Has(t, w)})])
    IN  FracMin(Frac(quarters, 40), One)

\* _analyze_structure of the puzzle analyzer
AnalyzePuzzleStructure(t) ==
    LET sentences == PuzzleSentences(t)
    IN
    IF sentences = <<>> THEN Zero
    ELSE LET lengths == [k \in DOMAIN sentences |-> Len(SplitWords(sentences[k]))]
             n == Len(sentences)
             total == Sum(lengths)
             avg_sentence_length == Frac(total, n)
             length_variance ==
                 IF n > 1
                 THEN Frac(Sum([k \in DOMAIN lengths |->
                                   (lengths[k] * n - total) * (lengths[k] * n - total)]),
                           n * n * n)
                 ELSE Zero
             question == IF \E k \in DOMAIN sentences : "?" \in Elems(sentences[k])
                         THEN One ELSE Half
             structure_score ==
                 FracAdd(FracAdd(
                     FracMul(FracMin(FracMul(avg_sentence_length, Frac(1, 20)), One),
                             Frac(4, 10)),
                     FracMul(FracMin(FracMul(length_variance, Frac(1, 50)), One),
                             Frac(3, 10))),
                     FracMul(question, Frac(3, 10)))
         IN  FracMin(structure_score, One)

\* a match of (?:kws)[:\s]+([^\.]+) in the characters c: a keyword, then a
\* colon or whitespace, then a character that is no full stop
SolutionMatch(c, kws) ==
    \E w \in kws : \E i \in 1..(Len(c) - Len(w) - 1) :
        /\ SubSeq(c, i, i + Len(w) - 1) = w
        /\ c[i + Len(w)] \in {":"} \cup Spaces
        /\ c[i + Len(w) + 1] # "."

\* a match of (?:phrases)[^\.]+?([^\.]+): a phrase, then two characters that
\* are no full stops
PhraseMatch(c, phrases) ==
    \E w \in phrases : \E i \in 1..(Len(c) - Len(w) - 1) :
        /\ SubSeq(c, i, i + Len(w) - 1) = w
        /\ c[i + Len(w)] # "."
        /\ c[i + Len(w) + 1] # "."

\* _analyze_solution_clarity
AnalyzeSolutionClarity(t) ==
    LET c == Chars(t)
        has_solution_mention ==
            \E w \in {"reshenie", "otvet", "klyuch", "razgadka"} : Occurs(c, Spell(w))
        solution_pattern_score ==
            IF SolutionMatch(c, {Spell("reshenie"), Spell("otvet"), Spell("klyuch")})
            THEN Frac(8, 10)
            ELSE IF PhraseMatch(c, {Spell("chtoby") \o <<" ">> \o Spell("reshit"),
                                    Spell("dlya") \o <<" ">> \o Spell("resheniya")})
            THEN Frac(6, 10)
            ELSE IF SolutionMatch(c, {Spell("podskazka"), Spell("namyok")})
            THEN Frac(4, 10)
            ELSE Zero
        has_hints ==
            \E w \in {"podskazka", "namyok", "ulika", "sled"} : Occurs(c, Spell(w))
        clarity_score ==
            FracAdd(FracAdd(
                FracMul(IF has_solution_mention THEN One ELSE Frac(3, 10), Frac(4, 10)),
                FracMul(solution_pattern_score, Frac(4, 10))),
                FracMul(IF has_hints THEN Frac(8, 10) ELSE Frac(2, 10), Frac(2, 10)))
    IN  FracMin(clarity_score, One)

\* A sum of float products can differ from its exact value in the last bit,
\* which decides a comparison with a threshold only when the exact value is
\* the threshold.  Below and Above are x < c and x > c for the float x whose
\* exact value is f and whose error has sign e (-1, 0 or 1).
Below(f, c, e) == FracLt(f, c) \/ (FracEq(f, c) /\ e < 0)
Above(f, c, e) == FracLt(c, f) \/ (FracEq(f, c) /\ e > 0)

\* _generate_puzzle_recommendations; cx and cl are the signs of the errors of
\* complexity_score and solution_clarity
PuzzleRecommendations(complexity_score, metrics, solution_clarity, cx, cl) ==
    (IF Below(complexity_score, Frac(3, 10), cx) THEN <<"Zagadka slishkom prostaya">>
     ELSE IF Above(complexity_score, Frac(8, 10), cx)
     THEN <<"Zagadka slishkom slozhnaya">>
     ELSE <<>>)
    \o (IF metrics.word_count < 50 THEN <<"Zagadka slishkom korotkaya">>
        ELSE IF metrics.word_count > 300 THEN <<"Zagadka slishkom dlinnaya">>
        ELSE <<>>)
    \o (IF FracLt(metrics.question_ratio, Frac(1, 10))
        THEN <<"Dobavte navodyaschie voprosy">> ELSE <<>>)
    \o (IF Below(solution_clarity, Frac(3, 10), cl) THEN <<"Reshenie neochevidno">>
        ELSE IF Above(solution_clarity, Frac(8, 10), cl)
        THEN <<"Reshenie slishkom ochevidno">>
        ELSE <<>>)

\* deliberately wrong variant: clarity adds to the complexity
ComplexityScoreClarityAdded(lexical_diversity, keyword_score, structure_score, solution_clarity) ==
    FracAdd(FracAdd(FracAdd(
        FracMul(lexical_diversity, Frac(3, 10)),
        FracMul(keyword_score, Frac(3, 10))),
        FracMul(structure_score, Frac(2, 10))),
        FracMul(solution_clarity, Frac(2, 10)))

\* lines 486-497: the weighted sum
ComplexityScore(lexical_diversity, keyword_score, structure_score, solution_clarity) ==
    FracAdd(FracAdd(FracAdd(
        FracMul(lexical_diversity, Frac(3, 10)),
        FracMul(keyword_score, Frac(3, 10))),
        FracMul(structure_score, Frac(2, 10))),
        FracMul(FracSub(One, solution_clarity), Frac(2, 10)))

\* lines 494-503
PuzzleLevel(complexity_score, cx) ==
    IF Below(complexity_score, Frac(25, 100), cx) THEN "Ochen prostoj"
    ELSE IF Below(complexity_score, Frac(45, 100), cx) THEN "Prostoj"
    ELSE IF Below(complexity_score, Frac(65, 100), cx) THEN "Srednij"
    ELSE IF Below(complexity_score, Frac(85, 100), cx) THEN "Slozhnyj"
    ELSE "Ochen slozhnyj"

\* what the float arithmetic decides in one call: up1 and up2 the rounding of
\* complexity_score and structure_score at a tie, cx and cl the signs of the
\* errors of complexity_score and solution_clarity
FloatDecisions == [up1 : BOOLEAN, up2 : BOOLEAN, cx : {0 - 1, 0, 1}, cl : {0 - 1, 0, 1}]
Exact == [up1 |-> FALSE, up2 |-> FALSE, cx |-> 0, cl |-> 0]

\* the result for an empty puzzle text, line 484
NoPuzzle == [complexity_score |-> 0, level |-> "Net zagadki", recommendations |-> <<>>]

\* lines 486-490: the metrics and the three partial scores of a text
PuzzleParts(t) ==
    [metrics |-> CalculatePuzzleMetrics(t),
     keyword_score |-> AnalyzeKeywords(t),
     structure_score |-> AnalyzePuzzleStructure(t),
     solution_clarity |-> AnalyzeSolutionClarity(t)]

\* lines 492-525 on the parts p.  Scores that the code rounds to 3 places are
\* in thousandths; the fields complexity and structure hold the two values
\* before rounding.
PuzzleScoresOf(p, fl) ==
    LET complexity_score ==
            ComplexityScore(p.metrics.lexical_diversity, p.keyword_score,
                            p.structure_score, p.solution_clarity)
    IN  [complexity_score |-> Round3(complexity_score, fl.up1),
         level |-> PuzzleLevel(complexity_score, fl.cx),
         metrics |-> p.metrics,
         keyword_score |-> Round3(p.keyword_score, FALSE),
         structure_score |-> Round3(p.structure_score, fl.up2),
         solution_clarity |-> Round3(p.solution_clarity, FALSE),
         recommendations |->
             PuzzleRecommendations(complexity_score, p.metrics, p.solution_clarity,
                                   fl.cx, fl.cl),
         word_count |-> p.metrics.word_count,
         complexity |-> complexity_score,
         structure |-> p.structure_score]

\* analyze_puzzle_complexity from line 486 on
PuzzleScores(t, fl) == Apply(LAMBDA p : PuzzleScoresOf(p, fl), PuzzleParts(t))

\* deliberately wrong variant: only the empty text gets the empty result
AnalyzePuzzleEmptyOnly(t, fl) ==
    IF t = <<>> THEN NoPuzzle ELSE PuzzleScores(t, fl)

\* analyze_puzzle_complexity
AnalyzePuzzleComplexity(t, fl) ==
    IF Strip(t) = <<>> THEN NoPuzzle ELSE PuzzleScores(t, fl)

\* the decisions of the float arithmetic that can matter for a text whose
\* exact result is r
PuzzleDecisionsOf(r) ==
    LET c == r.complexity
        cl == Frac(r.solution_clarity, 1000)
    IN  {fl \in FloatDecisions :
            /\ fl.up1 \in Ties(c)
            /\ fl.up2 \in Ties(r.structure)
            /\ fl.cx # 0 => \E th \in {25, 30, 45, 65, 80, 85} : FracEq(c, Frac(th, 100))
            /\ fl.cl # 0 => \E th \in {30, 80} : FracEq(cl, Frac(th, 100))}

PuzzleDecisions(t) == Apply(PuzzleDecisionsOf, PuzzleScores(t, Exact))

(***************************************************************************)
(* SpecPuzzle: analyze_puzzle_complexity applied to every text of up to    *)
(* MaxPuzzleLen symbols over PuzzleAlphabet and to the texts PuzzleSamples. *)
(***************************************************************************)
MaxPuzzleLen == 4

PuzzleAlphabet == {" ", ".", "?", "a", "otvet", "slozhnyj"}

PuzzleSamples ==
    {<<" ", "\n", " ">>,
     <<"prostoj", " ", "legkij", " ", "ochevidnyj", " ", "pryamoj", " ", "yasnyj", ".",
       " ", "srednij", " ", "umerennyj", " ", "logichnyj", " ", "standartnyj", " ",
       "tipichnyj", "!", " ", "slozhnyj", " ", "trudnyj", " ", "zaputannyj", " ",
       "hitryj", " ", "zamyslovatyj", "?", " ", "ekspertnyj", " ", "golovolomnyj", " ",
       "zagadochnyj", " ", "neochevidnyj", " ", "skrytyj">>,
     <<"Chtoby", " ", "reshit", " ", "zagadka", ".", " ", "podskazka", ":", " ", "sled">>}

NoReport == <<>>

InitPuzzle ==
    /\ scenario \in TextsOver(PuzzleAlphabet, MaxPuzzleLen) \cup PuzzleSamples
    /\ report = NoReport
    /\ rpc = "input"
    /\ ExtractIdle
    /\ CombatIdle
    /\ CacheIdle
    /\ WebIdle

AnalyzePuzzle ==
    /\ rpc = "input"
    /\ \E fl \in PuzzleDecisions(scenario) :
          report' = AnalyzePuzzleComplexity(scenario, fl)
    /\ rpc' = "done"
    /\ UNCHANGED <<scenario, extractVars, combatVars, cacheVars, webVars>>

NextPuzzle == AnalyzePuzzle

SpecPuzzle == InitPuzzle /\ [][NextPuzzle]_vars

PuzzleDone == rpc = "done" /\ Strip(scenario) # <<>>

\* C14: for an empty or whitespace-only text the result is the one of line
\* 484: complexity_score 0, the level "no puzzle" and no recommendation, and
\* nothing else (no metric was computed).
C14_BlankPuzzle ==
    (rpc = "done" /\ \A k \in DOMAIN scenario : scenario[k] \in Spaces) =>
        /\ DOMAIN report = {"complexity_score", "level", "recommendations"}
        /\ report.complexity_score = 0
        /\ report.level = "Net zagadki"
        /\ report.recommendations = <<>>

C14_Witness ==
    /\ rpc = "done"
    /\ scenario = <<" ", "\n", " ">>
    /\ report.level = "Net zagadki"

\* C15: for a text that is not blank, complexity_score is
\* 0.3 * lexical_diversity + 0.3 * keyword_score + 0.2 * structure_score
\* + 0.2 * (1 - solution_clarity), and it and the four components are in
\* [0, 1].
C15_ComplexityInUnitInterval ==
    PuzzleDone =>
        LET ld == report.metrics.lexical_diversity
            kw == Frac(report.keyword_score, 1000)
            st == report.structure
            cl == Frac(report.solution_clarity, 1000)
            c == report.complexity
            In01(f) == f.d > 0 /\ 0 <= f.n /\ f.n <= f.d
        IN  /\ In01(ld) /\ In01(kw) /\ In01(st) /\ In01(cl) /\ In01(c)
            /\ kw = AnalyzeKeywords(scenario)
            /\ cl = AnalyzeSolutionClarity(scenario)
            /\ c = FracAdd(FracAdd(FracMul(Frac(3, 10), ld), FracMul(Frac(3, 10), kw)),
                           FracAdd(FracMul(Frac(2, 10), st),
                                   FracMul(Frac(2, 10), FracSub(One, cl))))
            /\ report.complexity_score \in 0..1000

\* the text with all twenty keywords: the keyword score is capped at 1
C15_Witness ==
    /\ PuzzleDone
    /\ report.keyword_score = 1000
    /\ report.metrics.lexical_diversity = One
    /\ report.complexity_score > 600

\* a "?" that ends a sentence: the first terminator after a piece of text
\* that is not blank
HasQuestionSentence(t) ==
    \E k \in DOMAIN t :
        /\ t[k] = "?"
        /\ \E j \in 1..(k - 1) :
              /\ t[j] \notin Spaces \cup Terminators
              /\ \A i \in j..(k - 1) : t[i] \notin Terminators

\* C16: the structure score of a puzzle text is
\* min(avg_sentence_length / 20, 1) * 0.4 + min(length_variance / 50, 1) * 0.3
\* + q * 0.3 with q = 1 when a sentence of the text ends in "?" and 0.5 when
\* none does, and question_ratio is above 0 when one does.
C16_QuestionBonus ==
    (PuzzleDone /\ PuzzleSentences(scenario) # <<>>) =>
        LET sentences == PuzzleSentences(scenario)
            lengths == [k \in DOMAIN sentences |-> Len(SplitWords(sentences[k]))]
            n == Len(sentences)
            total == Sum(lengths)
            variance ==
                IF n > 1
                THEN Frac(Sum([k \in DOMAIN lengths |->
                                  (lengths[k] * n - total) * (lengths[k] * n - total)]),
                          n * n * n)
                ELSE Zero
            q == IF HasQuestionSentence(scenario) THEN One ELSE Half
        IN  /\ report.structure =
                  FracMin(FracAdd(FracAdd(
                      FracMul(FracMin(Frac(total, 20 * n), One), Frac(4, 10)),
                      FracMul(FracMin(FracMul(variance, Frac(1, 50)), One), Frac(3, 10))),
                      FracMul(q, Frac(3, 10))), One)
            /\ HasQuestionSentence(scenario) => report.metrics.question_ratio.n > 0

\* what holds instead: no sentence ever counts as a question
C16_NoQuestionEverCounted ==
    PuzzleDone =>
        /\ report.metrics.question_count = 0
        /\ "Dobavte navodyaschie voprosy" \in Elems(report.recommendations)


(***************************************************************************)
(* NarrativeAnalyzer.                                                      *)
(***************************************************************************)
\* transition_words, each as a text
TransitionWords ==
    <<<<"zatem">>, <<"potom">>, <<"posle", " ", "etogo">>, <<"vdrug">>, <<"vnezapno">>,
      <<"odnako">>, <<"no">>, <<"tem", " ", "ne", " ", "menee">>, <<"sledovatelno">>,
      <<"poetomu">>, <<"takim", " ", "obrazom">>, <<"krome", " ", "togo">>,
      <<"bolee", " ", "togo">>, <<"v", " ", "to", " ", "zhe", " ", "vremya">>>>

PlotElements ==
    <<"zavyazka", "razvitie", "kulminaciya", "razvyazka",
      "konflikt", "razreshenie", "povorot", "otkrytie">>

IntroductionWords == {"vvedenie", "nachalo", "prolog"}
ConclusionWords == {"zaklyuchenie", "konec", "epilog"}

Least(S) == CHOOSE i \in S : \A j \in S : i <= j

\* q[:n] and q[-n:]
FirstN(q, n) == SubSeq(q, 1, IF n < Len(q) THEN n ELSE Len(q))
LastN(q, n) == SubSeq(q, IF Len(q) > n THEN Len(q) - n + 1 ELSE 1, Len(q))

\* text.split('\n\n'): the pieces between the pairs of line feeds, taken
\* from the left
RECURSIVE SplitAtBlankLine(_)
SplitAtBlankLine(q) ==
    LET hits == {i \in 1..(Len(q) - 1) : q[i] = "\n" /\ q[i + 1] = "\n"}
    IN  IF hits = {} THEN <<q>>
        ELSE <<SubSeq(q, 1, Least(hits) - 1)>>
                 \o SplitAtBlankLine(SubSeq(q, Least(hits) + 2, Len(q)))

\* line 679
Paragraphs(t) == StrippedNonEmpty(SplitAtBlankLine(t))

\* _split_into_sentences: a sentence ends with each terminator, which it
\* keeps; what follows the last terminator is a sentence too
RECURSIVE SplitIntoSentences(_)
SplitIntoSentences(q) ==
    LET e == RunEnd(q, 1, Elems(q) \ Terminators)
        sentence == Strip(FirstN(q, e))
    IN  IF q = <<>> THEN <<>>
        ELSE (IF sentence # <<>> THEN <<sentence>> ELSE <<>>)
                 \o SplitIntoSentences(SubSeq(q, e + 1, Len(q)))

\* the paragraph borders with a word in common among the last three words
\* before and the first three words after
CoherentPairs(paragraphs) ==
    Cardinality({i \in 1..(Len(paragraphs) - 1) :
        LET prev_words == SplitWords(paragraphs[i])
            next_words == SplitWords(paragraphs[i + 1])
        IN  /\ prev_words # <<>>
            /\ next_words # <<>>
            /\ Elems(LastN(prev_words, 3)) \cap Elems(FirstN(next_words, 3)) # {}})

\* the pairs of a sentence and a transition that the sentence contains
TransitionCount(sentences) ==
    Sum([k \in DOMAIN sentences |->
            Cardinality({j \in DOMAIN TransitionWords :
                            Occurs(Chars(sentences[k]), Chars(TransitionWords[j]))})])

\* lines 736-762, what follows the guard
CoherenceFormula(paragraphs, sentences) ==
    LET paragraph_score ==
            Frac(CoherentPairs(paragraphs),
                 IF Len(paragraphs) - 1 > 1 THEN Len(paragraphs) - 1 ELSE 1)
        transition_score ==
            FracMin(Frac(TransitionCount(sentences), Len(sentences)), One)
    IN  FracAdd(FracMul(paragraph_score, Frac(6, 10)),
                FracMul(transition_score, Frac(4, 10)))

\* deliberately wrong variant: no guard before the divisions
CoherenceScoreUnguarded(paragraphs, sentences) ==
    CoherenceFormula(paragraphs, sentences)

\* _calculate_coherence_score
CalculateCoherenceScore(paragraphs, sentences) ==
    IF Len(paragraphs) < 2 \/ Len(sentences) < 4 THEN Half
    ELSE CoherenceFormula(paragraphs, sentences)

\* the variance of the numbers of words of the paragraphs, lines 770-774
PacingVariance(paragraphs) ==
    LET lengths == [k \in DOMAIN paragraphs |-> Len(SplitWords(paragraphs[k]))]
        n == Len(lengths)
        total == Sum(lengths)
    IN  Frac(Sum([k \in DOMAIN lengths |->
                    (lengths[k] * n - total) * (lengths[k] * n - total)]),
             n * n * n)

\* _analyze_pacing; e is the sign of the error of variance
AnalyzePacing(paragraphs, e) ==
    IF Len(paragraphs) < 3 THEN Half
    ELSE IF Below(PacingVariance(paragraphs), Frac(50, 1), e) THEN Frac(4, 10)
    ELSE IF Below(PacingVariance(paragraphs), Frac(200, 1), e) THEN Frac(8, 10)
    ELSE Frac(5, 10)

\* _analyze_structure of the narrative analyzer
AnalyzeNarrativeStructure(t) ==
    LET text_lower == Chars(t)
        plot_element_count ==
            Cardinality({k \in DOMAIN PlotElements :
                            Occurs(text_lower, Spell(PlotElements[k]))})
        has_introduction ==
            \E w \in IntroductionWords : Occurs(FirstN(text_lower, 200), Spell(w))
        has_conclusion ==
            \E w \in ConclusionWords : Occurs(LastN(text_lower, 200), Spell(w))
    IN  FracAdd(FracAdd(
            FracMul(FracMin(Frac(plot_element_count, 4), One), Frac(4, 10)),
            FracMul(IF has_introduction THEN One ELSE Half, Frac(3, 10))),
            FracMul(IF has_conclusion THEN One ELSE Half, Frac(3, 10)))

\* str.count: the occurrences of needle in hay that do not overlap, from
\* the left
RECURSIVE Count(_, _)
Count(hay, needle) ==
    LET hits == {i \in 1..(Len(hay) - Len(needle) + 1) :
                    SubSeq(hay, i, i + Len(needle) - 1) = needle}
    IN  IF hits = {} THEN 0
        ELSE 1 + Count(SubSeq(hay, Least(hits) + Len(needle), Len(hay)), needle)

\* _count_transition_words
CountTransitionWords(t) ==
    Sum([k \in DOMAIN TransitionWords |-> Count(Chars(t), Chars(TransitionWords[k]))])

\* recommendations without the one about transition words
NarrativeRecommendationsByScore(narrative_score, paragraph_count, sentence_count, e) ==
    (IF Below(narrative_score, Frac(4, 10), e)
     THEN <<"Povestvovanie trebuet uluchsheniya svyaznosti">> ELSE <<>>)
    \o (IF paragraph_count < 3 THEN <<"Dobavte bolshe paragrafov">>
        ELSE IF paragraph_count > 20 THEN <<"Slishkom mnogo korotkih paragrafov">>
        ELSE <<>>)
    \o (IF sentence_count < 10 THEN <<"Dobavte detalej i opisanij">> ELSE <<>>)

\* _generate_narrative_recommendations; e is the sign of the error of
\* narrative_score.  The condition of line 837 is a bound method, which is
\* true, so the last advice is always given.
NarrativeRecommendations(narrative_score, paragraph_count, sentence_count, e) ==
    (IF Below(narrative_score, Frac(4, 10), e)
     THEN <<"Povestvovanie trebuet uluchsheniya svyaznosti">> ELSE <<>>)
    \o (IF paragraph_count < 3 THEN <<"Dobavte bolshe paragrafov">>
        ELSE IF paragraph_count > 20 THEN <<"Slishkom mnogo korotkih paragrafov">>
        ELSE <<>>)
    \o (IF sentence_count < 10 THEN <<"Dobavte detalej i opisanij">> ELSE <<>>)
    \o <<"Ispolzujte bolshe slov-perehodov">>

\* what the float arithmetic decides in one call: up1, up2 and up3 the
\* rounding of narrative_score, coherence_score and structure_score at a
\* tie, nx and pv the signs of the errors of narrative_score and of the
\* variance of the paragraph lengths
NarrativeDecisions ==
    [up1 : BOOLEAN, up2 : BOOLEAN, up3 : BOOLEAN, nx : {0 - 1, 0, 1}, pv : {0 - 1, 0, 1}]
NarrativeExact == [up1 |-> FALSE, up2 |-> FALSE, up3 |-> FALSE, nx |-> 0, pv |-> 0]

\* analyze_narrative_flow.  raised tells a division by zero; scores that
\* the code rounds to 3 places are in thousandths; the fields narrative,
\* coherence and structure hold the three values before rounding.
AnalyzeNarrativeFlow(t, fl) ==
    LET paragraphs == Paragraphs(t)
        sentences == SplitIntoSentences(t)
        coherence_score == CalculateCoherenceScore(paragraphs, sentences)
        pacing_score == AnalyzePacing(paragraphs, fl.pv)
        structure_score == AnalyzeNarrativeStructure(t)
        narrative_score ==
            FracAdd(FracAdd(FracMul(coherence_score, Frac(4, 10)),
                            FracMul(pacing_score, Frac(3, 10))),
                    FracMul(structure_score, Frac(3, 10)))
    IN  IF coherence_score.d = 0
        THEN [raised |-> "ZeroDivisionError"]
        ELSE [raised |-> "none",
              narrative_score |-> Round3(narrative_score, fl.up1),
              coherence_score |-> Round3(coherence_score, fl.up2),
              pacing_score |-> Round3(pacing_score, FALSE),
              structure_score |-> Round3(structure_score, fl.up3),
              paragraph_count |-> Len(paragraphs),
              sentence_count |-> Len(sentences),
              avg_paragraph_length |->
                  Frac(Sum([k \in DOMAIN paragraphs |-> Len(SplitWords(paragraphs[k]))]),
                       IF Len(paragraphs) > 1 THEN Len(paragraphs) ELSE 1),
              transition_word_count |-> CountTransitionWords(t),
              recommendations |->
                  NarrativeRecommendations(narrative_score, Len(paragraphs),
                                           Len(sentences), fl.nx),
              narrative |-> narrative_score,
              coherence |-> coherence_score,
              structure |-> structure_score]

\* the decisions of the float arithmetic that can matter for the text t
NarrativeDecisionsOf(t) ==
    LET variance == PacingVariance(Paragraphs(t))
        signs == IF Len(Paragraphs(t)) >= 3
                    /\ (FracEq(variance, Frac(50, 1)) \/ FracEq(variance, Frac(200, 1)))
                 THEN {0 - 1, 0, 1} ELSE {0}
    IN  UNION {LET r == AnalyzeNarrativeFlow(t, [NarrativeExact EXCEPT !.pv = pv])
               IN  IF r.raised # "none" THEN {NarrativeExact}
                   ELSE {fl \in NarrativeDecisions :
                           /\ fl.pv = pv
                           /\ fl.up1 \in Ties(r.narrative)
                           /\ fl.up2 \in Ties(r.coherence)
                           /\ fl.up3 \in Ties(r.structure)
                           /\ fl.nx # 0 => FracEq(r.narrative, Frac(4, 10))}
               : pv \in signs}

(***************************************************************************)
(* SpecNarrative: analyze_narrative_flow applied to every text of up to    *)
(* MaxNarrativeLen symbols over NarrativeAlphabet and to every text of up  *)
(* to MaxParagraphs paragraphs of ParagraphSamples with an empty line      *)
(* between two of them, and to the texts NarrativeSamples.                 *)
(***************************************************************************)
MaxNarrativeLen == 4
MaxParagraphs == 3

NarrativeAlphabet == {"\n", " ", ".", "a", "no"}

\* n words a
RECURSIVE Words(_)
Words(n) == IF n = 1 THEN <<"a">> ELSE <<"a", " ">> \o Words(n - 1)

ParagraphSamples ==
    {<<"a", ".", " ", "a", ".">>,
     <<"no", " ", "a", ".", " ", "Zatem", " ", "vnezapno", "!">>,
     <<"konflikt", " ", "konflikt", " ", "konflikt", " ", "konflikt", ".">>,
     <<"zavyazka", " ", "razvitie", ".", " ", "kulminaciya", " ", "razvyazka", "?">>,
     <<"Vvedenie", " ", "prose">>,
     <<"prose", " ", "konec", ".">>}

RECURSIVE Join(_)
Join(ps) ==
    IF ps = <<>> THEN <<>>
    ELSE IF Len(ps) = 1 THEN ps[1]
    ELSE ps[1] \o <<"\n", "\n">> \o Join(Tail(ps))

\* texts with one long paragraph, for the bands of the pacing score
NarrativeSamples ==
    {Join(<<Words(30), <<"a", ".", " ", "a", ".">>, <<"a", ".">>>>),
     Join(<<<<"a", ".">>, Words(34), <<"a", ".">>>>)}

\* a text of 21 paragraphs of one word, and a paragraph of 10 sentences
ManyParagraphs == Join([k \in 1..21 |-> <<"a">>])
RECURSIVE Sentences(_)
Sentences(n) == IF n = 0 THEN <<>> ELSE <<"a", ".">> \o Sentences(n - 1)
ManySentences == Sentences(10)

NarrativeTexts ==
    TextsOver(NarrativeAlphabet, MaxNarrativeLen)
        \cup {Join(ps) : ps \in TextsOver(ParagraphSamples, MaxParagraphs)}
        \cup NarrativeSamples
        \cup {ManyParagraphs, ManySentences}

InitNarrative ==
    /\ scenario \in NarrativeTexts
    /\ report = NoReport
    /\ rpc = "input"
    /\ ExtractIdle
    /\ CombatIdle
    /\ CacheIdle
    /\ WebIdle

AnalyzeNarrative ==
    /\ rpc = "input"
    /\ \E fl \in NarrativeDecisionsOf(scenario) :
          report' = AnalyzeNarrativeFlow(scenario, fl)
    /\ rpc' = "done"
    /\ UNCHANGED <<scenario, extractVars, combatVars, cacheVars, webVars>>

NextNarrative == AnalyzeNarrative

SpecNarrative == InitNarrative /\ [][NextNarrative]_vars


NarrativeDone == rpc = "done"

\* C17: analyze_narrative_flow never divides by zero.  For a text with fewer
\* than 2 paragraphs or fewer than 4 sentences the coherence score is the
\* neutral 1/2; for every other text both denominators, paragraph_count - 1
\* and sentence_count, are at least 1 and the coherence score is
\* 0.6 * coherent_pairs / (paragraph_count - 1)
\*     + 0.4 * min(transition_count / sentence_count, 1).
\* The reported coherence_score is that value rounded to thousandths.
C17_CoherenceNeverDividesByZero ==
    NarrativeDone =>
        /\ report.raised = "none"
        /\ LET paragraphs == Paragraphs(scenario)
               sentences == SplitIntoSentences(scenario)
               pc == report.paragraph_count
               sc == report.sentence_count
               pairs == CoherentPairs(paragraphs)
               tc == TransitionCount(sentences)
           IN  /\ pc = Len(paragraphs)
               /\ sc = Len(sentences)
               /\ report.coherence.d # 0
               /\ (pc < 2 \/ sc < 4) => report.coherence = Half
               /\ ~(pc < 2 \/ sc < 4) =>
                     /\ pc - 1 >= 1
                     /\ sc >= 1
                     /\ report.coherence =
                            FracAdd(FracMul(Frac(6, 10), Frac(pairs, pc - 1)),
                                    FracMul(Frac(4, 10),
                                            IF tc >= sc THEN One ELSE Frac(tc, sc)))
               /\ \E up \in BOOLEAN :
                     report.coherence_score = Round3(report.coherence, up)

\* one report of each kind: the formula with a coherent pair and a
\* transition count below the sentence count
C17_Witness ==
    /\ NarrativeDone
    /\ report.raised = "none"
    /\ report.paragraph_count >= 2
    /\ report.sentence_count >= 4
    /\ CoherentPairs(Paragraphs(scenario)) >= 1
    /\ TransitionCount(SplitIntoSentences(scenario)) >= 1
    /\ TransitionCount(SplitIntoSentences(scenario)) < report.sentence_count
    /\ report.coherence # Half


\* the occurrences of the plot keywords in the text t
PlotOccurrences(t) ==
    Sum([k \in DOMAIN PlotElements |-> Count(Chars(t), Spell(PlotElements[k]))])

\* the term of the introduction (first 200 characters) or of the conclusion
\* (last 200 characters): 0.3 with an indicator word, 0.15 without
IndicatorTerm(c, words) ==
    IF \E w \in words : Occurs(c, Spell(w)) THEN Frac(30, 100) ELSE Frac(15, 100)

\* C18: the structure score of the narrative is
\* min(occurrences / 4, 1) * 0.4, for the number of occurrences of the plot
\* keywords in the text, plus 0.3 or 0.15 for the introduction and 0.3 or
\* 0.15 for the conclusion.
C18_PlotTermByOccurrences ==
    NarrativeDone /\ report.raised = "none" =>
        report.structure =
            FracAdd(FracAdd(
                FracMul(FracMin(Frac(PlotOccurrences(scenario), 4), One), Frac(4, 10)),
                IndicatorTerm(FirstN(Chars(scenario), 200), IntroductionWords)),
                IndicatorTerm(LastN(Chars(scenario), 200), ConclusionWords))

\* what the code computes instead: the plot term counts the keywords that
\* occur, each once
C18_PlotTermByDistinctKeywords ==
    NarrativeDone /\ report.raised = "none" =>
        report.structure =
            FracAdd(FracAdd(
                FracMul(FracMin(Frac(Cardinality({k \in DOMAIN PlotElements :
                                         Count(Chars(scenario), Spell(PlotElements[k])) > 0}),
                                     4), One),
                        Frac(4, 10)),
                IndicatorTerm(FirstN(Chars(scenario), 200), IntroductionWords)),
                IndicatorTerm(LastN(Chars(scenario), 200), ConclusionWords))

\* a text where one plot keyword occurs four times and no other does, with
\* no introduction and no conclusion: the score is 0.1 + 0.15 + 0.15
C18_FourOccurrencesOfOneKeyword ==
    /\ NarrativeDone
    /\ report.raised = "none"
    /\ PlotOccurrences(scenario) = 4
    /\ Count(Chars(scenario), Spell("konflikt")) = 4
    /\ report.structure = Frac(40, 100)


(***************************************************************************)
(* ScenarioAnalyzer.                                                       *)
(***************************************************************************)
\* TextAnalyzer.calculate_text_metrics
CalculateTextMetrics(t) ==
    LET words == SplitWords(t)
        sentences == PuzzleSentences(t)
    IN  [word_count |-> Len(words),
         sentence_count |-> Len(sentences),
         avg_sentence_length |->
             Frac(Len(words), IF Len(sentences) > 1 THEN Len(sentences) ELSE 1),
         unique_words |-> Cardinality(Elems(words)),
         lexical_diversity |->
             Frac(Cardinality(Elems(words)), IF Len(words) > 1 THEN Len(words) ELSE 1)]

\* full_analysis, line 1071: the result used when no puzzle was found
NoPuzzles == [complexity_score |-> 0, level |-> "Net zagadok"]

\* elements.get(type, [])
ElementsOf(els, type) == IF type \in DOMAIN els THEN els[type] ELSE <<>>

\* ' '.join([p['text'] for p in puzzles])
RECURSIVE JoinTexts(_)
JoinTexts(ps) ==
    IF ps = <<>> THEN <<>>
    ELSE IF Len(ps) = 1 THEN ps[1].text
    ELSE ps[1].text \o <<" ">> \o JoinTexts(Tail(ps))

\* deliberately wrong variant: the three scores weigh the same
OverallScoreEqualWeights(combat_score, puzzle_score, narrative_score) ==
    Frac(combat_score + puzzle_score + narrative_score, 3000)

\* _calculate_overall_score, of three scores in thousandths
CalculateOverallScore(combat_score, puzzle_score, narrative_score) ==
    Frac(4 * combat_score + 3 * puzzle_score + 3 * narrative_score, 10000)

\* _get_element_name
GetElementName(element_type) ==
    CASE element_type = "npc" -> "Neigrovye personazhi"
      [] element_type = "location" -> "Lokacii"
      [] element_type = "encounter" -> "Boevye vstrechi"
      [] element_type = "item" -> "Predmety"
      [] element_type = "puzzle" -> "Zagadki"
      [] element_type = "trap" -> "Lovushki"
      [] element_type = "treasure" -> "Sokrovischa"
      [] OTHER -> element_type

\* lines 1127-1131: a non-player character whose name holds the word for a
\* merchant
HasMerchant(els) ==
    \E k \in DOMAIN ElementsOf(els, "npc") :
        \/ Occurs(Chars(ElementsOf(els, "npc")[k].name), Spell("torgovec"))
        \/ Occurs(Chars(ElementsOf(els, "npc")[k].name), Spell("merchant"))

\* lines 1133-1139
MissingMerchant ==
    [element |-> "npc", name |-> "Torgovec/Prodavec", importance |-> "medium",
     reason |-> "Dlya prodazhi/pokupki predmetov"]

\* lines 1115-1123 for one required type
MissingRequired(els, element) ==
    IF element \notin DOMAIN els \/ Len(els[element]) = 0
    THEN <<[element |-> element, name |-> GetElementName(element),
            importance |-> IF element \in {"npc", "encounter"} THEN "high" ELSE "medium"]>>
    ELSE <<>>

\* deliberately wrong variant: any non-player character counts as the merchant
IdentifyMissingElementsAnyNpc(els) ==
    MissingRequired(els, "npc") \o MissingRequired(els, "location")
        \o MissingRequired(els, "encounter")
        \o (IF "item" \in DOMAIN els /\ Len(els["item"]) > 0
               /\ ElementsOf(els, "npc") = <<>>
            THEN <<MissingMerchant>> ELSE <<>>)

\* _identify_missing_elements
IdentifyMissingElements(els) ==
    MissingRequired(els, "npc") \o MissingRequired(els, "location")
        \o MissingRequired(els, "encounter")
        \o (IF "item" \in DOMAIN els /\ Len(els["item"]) > 0 /\ ~HasMerchant(els)
            THEN <<MissingMerchant>> ELSE <<>>)

\* _generate_overall_recommendations; the scores are the rounded ones of the
\* analyses, in thousandths
GenerateOverallRecommendations(els, combat_analysis, puzzle_analysis, narrative_analysis) ==
    (IF Len(ElementsOf(els, "npc")) < 2 THEN <<"Dobavte bolshe NPC">> ELSE <<>>)
    \o (IF Len(ElementsOf(els, "location")) < 2 THEN <<"Dobavte raznoobraznye lokacii">>
        ELSE <<>>)
    \o (IF combat_analysis.difficulty \in {"Legkaya", "Srednyaya"}
        THEN <<"Mozhno usilit boevye vstrechi">>
        ELSE IF combat_analysis.difficulty \in {"Opasnaya", "Smertelnaya"}
        THEN <<"Boevye vstrechi mogut byt slishkom slozhnymi">>
        ELSE <<>>)
    \o (IF puzzle_analysis.complexity_score < 300 THEN <<"Zagadki slishkom prostye">>
        ELSE IF puzzle_analysis.complexity_score > 700
        THEN <<"Zagadki mogut byt slishkom slozhnymi">>
        ELSE <<>>)
    \o (IF narrative_analysis.narrative_score < 400
        THEN <<"Uluchshite svyaznost povestvovaniya">> ELSE <<>>)
    \o (IF Cardinality(DOMAIN els) < 4 THEN <<"Dobavte bolshe tipov kontenta">>
        ELSE <<>>)

\* full_analysis from line 1058 on, for the elements els and the monsters ms
\* found in the text.  The float arithmetic decides upb and upo, the rounding
\* of balance_score and overall_score at a tie, and pf and nf within the
\* puzzle and the narrative analysis.  execution_time, a reading of the
\* clock, is left out; the field overall holds overall_score before rounding.
FullReportOf(t, els, a, upo) ==
    LET overall_score ==
            CalculateOverallScore(a.combat_analysis.balance_score,
                                  a.puzzle_analysis.complexity_score,
                                  a.narrative_analysis.narrative_score)
    IN  [raised |-> "none",
         overall_score |-> Round3(overall_score, upo),
         element_counts |-> [ty \in DOMAIN els |-> Len(els[ty])],
         combat_analysis |-> a.combat_analysis,
         puzzle_analysis |-> a.puzzle_analysis,
         narrative_analysis |-> a.narrative_analysis,
         text_metrics |-> CalculateTextMetrics(t),
         recommendations |->
             GenerateOverallRecommendations(els, a.combat_analysis, a.puzzle_analysis,
                                            a.narrative_analysis),
         missing_elements |-> IdentifyMissingElements(els),
         overall |-> overall_score]

\* lines 1058-1075: the three analyses
FullReport(t, els, ms, level, size, upb, pf, nf, upo) ==
    LET puzzles == ElementsOf(els, "puzzle")
    IN  Apply(LAMBDA a : FullReportOf(t, els, a, upo),
              [combat_analysis |->
                   IF ms # <<>> THEN EncounterDifficulty(ms, level, size, upb)
                   ELSE NoCombat,
               puzzle_analysis |->
                   IF puzzles # <<>> THEN AnalyzePuzzleComplexity(JoinTexts(puzzles), pf)
                   ELSE NoPuzzles,
               narrative_analysis |-> AnalyzeNarrativeFlow(t, nf)])

\* the rounding decisions of the balance score that can matter
BalanceTies(ms, level, size) ==
    IF ms = <<>> THEN {FALSE}
    ELSE Ties(CalculateBalanceScore(TotalBaseXp(ms) * Multiplier(TotalMonsters(ms)),
                                    PartyThresholds(level, size)))

\* the reports full_analysis can return for a text, the elements and the
\* monsters found in it
FullReports(t, els, ms, level, size) ==
    LET puzzles == ElementsOf(els, "puzzle")
        pfs == IF puzzles # <<>> THEN PuzzleDecisions(JoinTexts(puzzles)) ELSE {Exact}
    IN  UNION {Apply(LAMBDA r :
                         IF Ties(r.overall) = {FALSE} THEN {r}
                         ELSE {r, FullReport(t, els, ms, level, size, upb, pf, nf, TRUE)},
                     FullReport(t, els, ms, level, size, upb, pf, nf, FALSE))
               : upb \in BalanceTies(ms, level, size), pf \in pfs,
                 nf \in NarrativeDecisionsOf(t)}

(***************************************************************************)
(* SpecFull: full_analysis of a new ScenarioAnalyzer applied to every text *)
(* of up to MaxFragments fragments of Fragments with a space between two   *)
(* of them, for a party of level FullLevel and of 1 to MaxFullPartySize    *)
(* players, and to the documented scenarios for the documented party.      *)
(* The caches of a new analyzer are empty, so the hash of the one monster   *)
(* list of the call plays no part; it is taken as 0.                       *)
(***************************************************************************)
MaxFragments == 2
MaxFullPartySize == 2
FullLevel == 3

Fragments ==
    {<<"[", "MONSTER", ":", " ", "Goblin", " ", "x", "3", " ", "CR", " ", "1", "/", "0", "]">>,
     <<"[", "MONSTER", ":", " ", "Goblin", " ", "x", "0", " ", "CR", " ", "/", "]">>,
     <<"[", "MONSTER", ":", " ", "Goblin", " ", "CR", " ", "1", "/", "2", "/", "3", "]">>,
     <<"[", "NPC", ":", " ", "Bob", "]">>,
     <<"[", "NPC", ":", " ", "Torgovec", " ", "Bob", "]">>,
     <<"[", "LOC", ":", " ", "Les", "]">>,
     <<"[", "ITEM", ":", " ", "artefakt", "]">>,
     <<"[", "ENCOUNTER", ":", " ", "boj", "]">>,
     <<"[", "PUZZLE", ":", " ", "slozhnyj", " ", "otvet", "?", "]">>}

RECURSIVE JoinFragments(_)
JoinFragments(fs) ==
    IF fs = <<>> THEN <<>>
    ELSE IF Len(fs) = 1 THEN fs[1]
    ELSE fs[1] \o <<" ">> \o JoinFragments(Tail(fs))

FullTexts == {JoinFragments(fs) : fs \in TextsOver(Fragments, MaxFragments)}

\* the scenario of the documented example: the four tags alone, and with
\* connective prose around them
DocumentedTags ==
    <<"[", "NPC", ":", " ", "Gvendolin", "]", " ",
      "[", "LOC", ":", " ", "T", "yo", "mnyj", " ", "les", "]", " ",
      "[", "ENCOUNTER", ":", " ", "Zasada", "]", " ",
      "[", "MONSTER", ":", " ", "Goblin", " ", "x", "3", " ", "CR", " ", "1", "/", "4", "]">>

DocumentedScenarios ==
    {DocumentedTags,
     <<"Geroi", " ", "v", " ", "les", ".", " ">> \o DocumentedTags
         \o <<" ", "potom", " ", "boj", ".">>}

\* the counted mention of the comment of line 378
CountedMention == <<"3", " ", "goblina", " ", "(", "CR", " ", "0", ".", "2", "5", ")">>

\* the party of the documented example
DocumentedPartySize == 4

InitFull ==
    /\ \/ scenario \in FullTexts /\ party_size \in 1..MaxFullPartySize
       \/ /\ scenario \in DocumentedScenarios \cup {CountedMention}
          /\ party_size = DocumentedPartySize
    /\ party_level = FullLevel
    /\ report = NoReport
    /\ rpc = "input"
    /\ text = <<>>
    /\ elements = NoElements
    /\ epc = "off"
    /\ monsters = <<>>
    /\ combat = NoResult
    /\ score = NoScore
    /\ cpc = "off"
    /\ text_cache = <<>>
    /\ combat_cache = <<>>
    /\ hash_of = [ms \in {ExtractMonstersFromText(scenario).monsters} |-> 0]
    /\ last = NoCall
    /\ thr = <<>>
    /\ WebIdle

\* full_analysis: extract_elements (which fills its cache), then
\* extract_monsters_from_text, whose exception ends the call; then the three
\* analyses (calculate_encounter_difficulty fills its cache) and the report
FullAnalysis ==
    /\ rpc = "input"
    /\ \E c \in {ExtractElementsCached(text_cache, scenario)},
          found \in {ExtractMonstersFromText(scenario)} :
           /\ elements' = c.ret
           /\ text_cache' = c.cache
           /\ IF found.raised # ""
              THEN /\ report' = [raised |-> found.raised]
                   /\ UNCHANGED <<monsters, combat_cache>>
              ELSE /\ monsters' = found.monsters
                   /\ report' \in FullReports(scenario, c.ret, found.monsters,
                                              party_level, party_size)
                   /\ combat_cache' =
                          IF found.monsters = <<>> THEN combat_cache
                          ELSE (CacheKey(found.monsters, party_level, party_size)
                                    :> report'.combat_analysis) @@ combat_cache
    /\ rpc' = "done"
    /\ UNCHANGED <<scenario, text, epc, party_level, party_size, combat, score, cpc,
                   hash_of, last, thr, webVars>>

NextFull == FullAnalysis

SpecFull == InitFull /\ [][NextFull]_vars

FullDone == rpc = "done"


ReportKeys ==
    {"raised", "overall_score", "element_counts", "combat_analysis", "puzzle_analysis",
     "narrative_analysis", "text_metrics", "recommendations", "missing_elements",
     "overall"}

\* C13: for every text, malformed rating and quantity fragments included,
\* full_analysis with party_size >= 1 raises no exception and returns a
\* complete report.
C13_NeverRaises ==
    FullDone => report.raised = "none" /\ DOMAIN report = ReportKeys

\* the call on the text with the rating 1/0 ends with the exception
C13_RatingOneOverZeroRaises ==
    /\ FullDone
    /\ scenario = <<"[", "MONSTER", ":", " ", "Goblin", " ", "x", "3", " ",
                    "CR", " ", "1", "/", "0", "]">>
    /\ report = [raised |-> "ZeroDivisionError"]

\* C19: overall_score is 0.4 * balance_score + 0.3 * complexity_score
\* + 0.3 * narrative_score, rounded to thousandths and within [0, 1].
\* balance_score is the 0.5 of the "no combat" result, and the calculator is
\* not run (its cache stays empty), exactly when no monster was extracted;
\* complexity_score is the 0 of the "no puzzles" result, and the puzzle
\* analyzer is not run, exactly when no puzzle element was extracted.
C19_OverallScore ==
    FullDone /\ report.raised = "none" =>
        LET b == report.combat_analysis.balance_score
            c == report.puzzle_analysis.complexity_score
            n == report.narrative_analysis.narrative_score
            puzzles == ElementsOf(elements, "puzzle")
        IN  /\ monsters = <<>> <=> report.combat_analysis = NoCombat
            /\ monsters = <<>> <=> combat_cache = <<>>
            /\ monsters = <<>> => b = 500
            /\ monsters # <<>> =>
                  \E up \in BOOLEAN :
                      report.combat_analysis =
                          EncounterDifficulty(monsters, party_level, party_size, up)
            /\ puzzles = <<>> <=> report.puzzle_analysis = NoPuzzles
            /\ puzzles = <<>> <=> "metrics" \notin DOMAIN report.puzzle_analysis
            /\ puzzles = <<>> <=> c = 0
            /\ 10000 * report.overall.n = (4 * b + 3 * c + 3 * n) * report.overall.d
            /\ \E up \in BOOLEAN : report.overall_score = Round3(report.overall, up)
            /\ report.overall_score >= 0
            /\ report.overall_score <= 1000

\* a report with monsters and a puzzle, whose three scores differ
C19_Witness ==
    /\ FullDone
    /\ report.raised = "none"
    /\ monsters # <<>>
    /\ ElementsOf(elements, "puzzle") # <<>>
    /\ report.combat_analysis.balance_score # report.puzzle_analysis.complexity_score
    /\ report.overall_score > 0

\* the entries of missing_elements for a required type / for the merchant
RequiredEntries(m, ty) == {k \in DOMAIN m : m[k].element = ty /\ "reason" \notin DOMAIN m[k]}
MerchantEntries(m) == {k \in DOMAIN m : "reason" \in DOMAIN m[k]}

\* C20: missing_elements has an entry for npc (importance high), location
\* (medium) or encounter (high) exactly when no element of that type was
\* extracted; it has the missing-merchant entry (importance medium, with a
\* reason) exactly when there is an item element and no npc element whose
\* name contains the word for a merchant in either language, whatever the
\* case; it has no other entry.
C20_MissingElements ==
    FullDone /\ report.raised = "none" =>
        LET m == report.missing_elements
            npcs == ElementsOf(elements, "npc")
        IN  /\ \A ty \in {"npc", "location", "encounter"} :
                  /\ Cardinality(RequiredEntries(m, ty))
                         = IF ElementsOf(elements, ty) = <<>> THEN 1 ELSE 0
                  /\ \A k \in RequiredEntries(m, ty) :
                         m[k].importance = IF ty = "location" THEN "medium" ELSE "high"
            /\ Cardinality(MerchantEntries(m))
                   = IF /\ ElementsOf(elements, "item") # <<>>
                        /\ \A k \in DOMAIN npcs :
                               /\ ~Occurs(Chars(npcs[k].name), Spell("torgovec"))
                               /\ ~Occurs(Chars(npcs[k].name), Spell("merchant"))
                     THEN 1 ELSE 0
            /\ \A k \in MerchantEntries(m) :
                   m[k].importance = "medium" /\ m[k].element = "npc"
            /\ \A k \in DOMAIN m :
                   k \in MerchantEntries(m)
                       \/ \E ty \in {"npc", "location", "encounter"} :
                              k \in RequiredEntries(m, ty)

\* an item and a character who is no merchant: the merchant is missing
\* though the type npc is not
C20_Witness ==
    /\ FullDone
    /\ report.raised = "none"
    /\ ElementsOf(elements, "item") # <<>>
    /\ ElementsOf(elements, "npc") # <<>>
    /\ MerchantEntries(report.missing_elements) # {}
    /\ RequiredEntries(report.missing_elements, "npc") = {}

(***************************************************************************)
(* Claims about extract_monsters_from_text within full_analysis, checked   *)
(* under SpecFull.  monsters is the list extract_monsters_from_text        *)
(* returned.                                                               *)
(***************************************************************************)
Documented ==
    FullDone /\ scenario \in DocumentedScenarios /\ party_size = DocumentedPartySize

\* the goblin entry of the tag: rating 0.25 and quantity 3
GoblinEntries ==
    {k \in DOMAIN monsters :
        /\ monsters[k].name = <<"Goblin">>
        /\ monsters[k].cr = 2
        /\ monsters[k].quantity = 3}

\* C21: for the documented scenario at party_level 3 and party_size 4 the
\* monster list contains a goblin entry with rating 0.25 and quantity 3, and
\* the combat analysis has total_base_xp 150, total_monsters 3, multiplier
\* 2.0, adjusted_xp 300, the thresholds 300/600/900/1600 and the easy tier.
C21_DocumentedExample ==
    Documented =>
        /\ report.raised = "none"
        /\ GoblinEntries # {}
        /\ report.combat_analysis.total_base_xp = 150
        /\ report.combat_analysis.total_monsters = 3
        /\ report.combat_analysis.multiplier = 4
        /\ report.combat_analysis.adjusted_xp = 600
        /\ report.combat_analysis.party_xp_thresholds = Row(300, 600, 900, 1600)
        /\ report.combat_analysis.difficulty = "Legkaya"

\* what the code returns for the four tags alone: the goblin entry and the
\* thresholds as documented, but the words of the tags counted as monsters
\* as well, 12 monsters in all
C21_WordsOfTheTagsAsMonsters ==
    /\ Documented
    /\ scenario = DocumentedTags
    /\ Cardinality(GoblinEntries) = 1
    /\ Len(monsters) = 10
    /\ report.combat_analysis.total_base_xp = 1050
    /\ report.combat_analysis.total_monsters = 12
    /\ report.combat_analysis.multiplier = 6
    /\ report.combat_analysis.adjusted_xp = 6300
    /\ report.combat_analysis.party_xp_thresholds = Row(300, 600, 900, 1600)
    /\ report.combat_analysis.difficulty = "Smertelnaya"
    /\ report.combat_analysis.balance_score = 16

\* C22: every entry extract_monsters_from_text returns has quantity >= 1,
\* rating >= 0 and xp >= 0, and no two entries have the same (name, rating).
C22_MonsterEntries ==
    FullDone /\ report.raised = "none" =>
        /\ \A k \in DOMAIN monsters :
              /\ monsters[k].quantity >= 1
              /\ monsters[k].cr >= 0
              /\ monsters[k].xp >= 0
        /\ \A i, j \in DOMAIN monsters :
              i # j => MonsterKey(monsters[i]) # MonsterKey(monsters[j])

\* the part of C22 that holds: rating and xp are not negative and the
\* (name, rating) pairs are distinct
C22_RatingXpAndKeys ==
    FullDone /\ report.raised = "none" =>
        /\ \A k \in DOMAIN monsters : monsters[k].cr >= 0 /\ monsters[k].xp >= 0
        /\ \A i, j \in DOMAIN monsters :
              i # j => MonsterKey(monsters[i]) # MonsterKey(monsters[j])

\* an entry with quantity 0, from a tag with x0
C22_QuantityZero ==
    /\ FullDone
    /\ report.raised = "none"
    /\ \E k \in DOMAIN monsters : monsters[k].quantity = 0

\* C24: for the counted mention '3 goblina (CR 0.25)' the entry of the third
\* pattern has the creature word as its name and the leading number as its
\* quantity: name 'Goblina' and quantity 3, and no entry is named '3'.
C24_CountedMention ==
    FullDone /\ scenario = CountedMention =>
        /\ \E k \in DOMAIN monsters :
              monsters[k].name = <<"Goblina">> /\ monsters[k].quantity = 3
        /\ \A k \in DOMAIN monsters : monsters[k].name # <<"3">>

\* what the code returns: the word with quantity 1 (from the second
\* pattern) and an entry named after the number, with quantity 1
C24_NamedAfterTheNumber ==
    /\ FullDone
    /\ scenario = CountedMention
    /\ Len(monsters) = 2
    /\ monsters[1].name = <<"Goblina">> /\ monsters[1].quantity = 1
    /\ monsters[1].cr = 2
    /\ monsters[2].name = <<"3">> /\ monsters[2].quantity = 1
    /\ monsters[2].cr = 2
    /\ monsters[2].source = CountedMention

(***************************************************************************)
(* DnDAPI: get_monster_info and validate_monster_cr on one instance.  The  *)
(* service is outside the program: each request gets any of Responses.     *)
(* Ratings are held times 8, as in the monster entries.                    *)
(***************************************************************************)
\* the names the methods are called with
ApiNames == {"Goblin", "goblin", "Vrag"}

\* the claimed ratings: 0, 0.25, 0.5 and 1
ClaimedRatings == {0, 2, 4, 8}

\* a body that json() cannot parse, one that parses to a list, and dicts
Unparsable == [parsed |-> FALSE]
NotADict == [parsed |-> TRUE, dict |-> FALSE]
Dict(d) == [parsed |-> TRUE, dict |-> TRUE, data |-> d]

Bodies ==
    {Unparsable, NotADict, Dict(<<>>),
     Dict([name |-> "Goblin", challenge_rating |-> 2, xp |-> 50])}

\* what session.get can do: raise, or return a response
Responses ==
    {[raised |-> "ConnectionError"],
     [raised |-> "", status_code |-> 404, body |-> Unparsable]}
    \cup {[raised |-> "", status_code |-> 200, body |-> b] : b \in Bodies}

\* dict.get(key, default)
Get(d, key, default) == IF key \in DOMAIN d THEN d[key] ELSE default

\* line 865
MonsterCacheKey(monster_name) == <<"monster_", Lower(monster_name)>>

\* a result that reports the monster as found although the request failed
FoundAnyway(monster_name, error) ==
    [name |-> monster_name, challenge_rating |-> 4, xp |-> 100,
     found |-> TRUE, error |-> error]

\* the result of lines 896-902 and of lines 905-911
NotFound(monster_name, error) ==
    [name |-> monster_name, challenge_rating |-> 4, xp |-> 100,
     found |-> FALSE, error |-> error]

\* the result of lines 874-894, of the fields the validation reads
Found(monster_name, data) ==
    [name |-> Get(data, "name", monster_name),
     challenge_rating |-> Get(data, "challenge_rating", 0),
     xp |-> Get(data, "xp", 0),
     found |-> TRUE]

\* lines 869-911: the request and the result made of its outcome
MonsterRequest(monster_name, response) ==
    IF response.raised # ""
    THEN NotFound(monster_name, response.raised)
    ELSE IF response.status_code = 200
         THEN IF ~response.body.parsed
              THEN NotFound(monster_name, "JSONDecodeError")
              ELSE IF ~response.body.dict
                   THEN NotFound(monster_name, "AttributeError")
                   ELSE Found(monster_name, response.body.data)
         ELSE NotFound(monster_name, "Monster not found: 404")

\* a cache that keeps the results of successful lookups only
RememberFound(cache, cache_key, result) ==
    IF result.found THEN (cache_key :> result) @@ cache ELSE cache

\* line 913
Remember(cache, cache_key, result) == (cache_key :> result) @@ cache

\* get_monster_info, lines 865-914
GetMonsterInfoCached(cache, monster_name, response) ==
    IF MonsterCacheKey(monster_name) \in DOMAIN cache
    THEN [ret |-> cache[MonsterCacheKey(monster_name)], cache |-> cache,
          requested |-> FALSE]
    ELSE Apply(LAMBDA result :
                   [ret |-> result,
                    cache |-> Remember(cache, MonsterCacheKey(monster_name), result),
                    requested |-> TRUE],
               MonsterRequest(monster_name, response))

\* validate_monster_cr after its lookup, lines 929-953
ValidateMonsterCrOf(api_data, claimed_cr) ==
    IF ~api_data.found
    THEN [valid |-> FALSE, message |-> "Monstr ne najden v baze D&D 5e",
          suggested_cr |-> claimed_cr]
    ELSE IF Abs(api_data.challenge_rating - claimed_cr) < 2
         THEN [valid |-> TRUE, message |-> "CR sootvetstvuet D&D 5e SRD",
               api_cr |-> api_data.challenge_rating, claimed_cr |-> claimed_cr]
         ELSE [valid |-> FALSE, message |-> "CR otlichaetsya ot D&D 5e SRD",
               api_cr |-> api_data.challenge_rating, claimed_cr |-> claimed_cr,
               suggestion |-> api_data.challenge_rating]

InitApi ==
    /\ api_cache = <<>>
    /\ api_last = NoCall
    /\ FavoriteIdle
    /\ ExtractIdle
    /\ CombatIdle
    /\ CacheIdle
    /\ ReportIdle

\* one call of get_monster_info; response is what the service answers, or
\* would answer, at the time of the call
GetMonsterInfo ==
    \E monster_name \in ApiNames, response \in Responses :
        \E c \in {GetMonsterInfoCached(api_cache, monster_name, response)} :
            /\ api_cache' = c.cache
            /\ api_last' = [op |-> "get_monster_info", arg |-> monster_name,
                            response |-> response, requested |-> c.requested,
                            info |-> c.ret, ret |-> c.ret, raised |-> ""]
            /\ UNCHANGED <<favoriteVars, extractVars, combatVars, cacheVars, reportVars>>

\* one call of validate_monster_cr
ValidateMonsterCr ==
    \E monster_name \in ApiNames, claimed_cr \in ClaimedRatings,
       response \in Responses :
        \E c \in {GetMonsterInfoCached(api_cache, monster_name, response)} :
            /\ api_cache' = c.cache
            /\ api_last' = [op |-> "validate_monster_cr", arg |-> monster_name,
                            claimed_cr |-> claimed_cr,
                            response |-> response, requested |-> c.requested,
                            info |-> c.ret,
                            ret |-> ValidateMonsterCrOf(c.ret, claimed_cr),
                            raised |-> ""]
            /\ UNCHANGED <<favoriteVars, extractVars, combatVars, cacheVars, reportVars>>

NextApi == GetMonsterInfo \/ ValidateMonsterCr

SpecApi == InitApi /\ [][NextApi]_vars

\* the request of the last call was made and did not give a body to read
RequestFailed ==
    /\ api_last.op # "none"
    /\ api_last.requested
    /\ \/ api_last.response.raised # ""
       \/ api_last.response.status_code # 200
       \/ ~api_last.response.body.parsed
       \/ ~api_last.response.body.dict

\* C23: neither method raises, whatever the request does: a request that
\* raises, answers with a status other than 200 or has a body that is not a
\* JSON object gives a lookup result with found = False, and validation of a
\* result with found = False returns valid = False, the not-found message
\* and suggested_cr equal to the claimed rating.
C23_FailuresAreNotFound ==
    api_last.op # "none" =>
        /\ api_last.raised = ""
        /\ RequestFailed => ~api_last.info.found
        /\ (api_last.op = "validate_monster_cr" /\ ~api_last.info.found) =>
              /\ ~api_last.ret.valid
              /\ api_last.ret.message = "Monstr ne najden v baze D&D 5e"
              /\ api_last.ret.suggested_cr = api_last.claimed_cr

\* a validation whose request raised: not found, the claimed rating suggested
C23_ValidationOfAFailedLookup ==
    /\ api_last.op = "validate_monster_cr"
    /\ api_last.requested
    /\ api_last.response.raised = "ConnectionError"
    /\ ~api_last.info.found
    /\ api_last.claimed_cr = 8
    /\ api_last.ret.suggested_cr = 8

\* C27: a lookup leaves its result in the cache, a failure as well as a
\* success, and a call for a name whose key is in the cache makes no request
\* and returns the cached result, which stays as it is, whatever the service
\* would answer now.
C27_FailuresAreCached ==
    /\ [](api_last.op # "none" =>
             /\ MonsterCacheKey(api_last.arg) \in DOMAIN api_cache
             /\ api_cache[MonsterCacheKey(api_last.arg)] = api_last.info)
    /\ [][\A k \in DOMAIN api_cache :
              /\ k \in DOMAIN api_cache'
              /\ api_cache'[k] = api_cache[k]
              /\ MonsterCacheKey(api_last'.arg) = k =>
                    /\ ~api_last'.requested
                    /\ api_last'.info = api_cache[k]]_vars

\* a lookup under another spelling of a name that failed before, at a time
\* when the service would answer: no request, the failure is returned
C27_FailureServedFromCache ==
    /\ api_last.op = "get_monster_info"
    /\ ~api_last.requested
    /\ api_last.response.raised = ""
    /\ api_last.response.status_code = 200
    /\ api_last.response.body = Dict([name |-> "Goblin", challenge_rating |-> 2, xp |-> 50])
    /\ ~api_last.ret.found
    /\ api_last.arg = "goblin"
    /\ api_last.ret.name = "Goblin"

\* C25: for a level in 1..20 and a party of one or more, the party thresholds
\* are strictly ascending, easy < 0.8 * medium and 1.2 * hard < deadly; so an
\* adjusted_xp below easy or above deadly is never in the ideal band.
C25_BandInsideThresholds ==
    (Calculated /\ party_level \in 1..20 /\ party_size >= 1) =>
        LET th == combat.party_xp_thresholds
        IN  /\ th.easy < th.medium /\ th.medium < th.hard /\ th.hard < th.deadly
            /\ 5 * th.easy < 4 * th.medium
            /\ 6 * th.hard < 5 * th.deadly
            /\ combat.adjusted_xp < 2 * th.easy => ~InIdealBand
            /\ combat.adjusted_xp > 2 * th.deadly => ~InIdealBand

\* level 4, where 1.2 * hard (450 for one member) is nearest to deadly (500)
C25_Witness ==
    /\ Calculated
    /\ party_level = 4
    /\ party_size = 2
    /\ combat.party_xp_thresholds = Row(250, 500, 750, 1000)
    /\ combat.adjusted_xp > 2 * combat.party_xp_thresholds.deadly
    /\ ~InIdealBand

\* C26: with the thresholds of the call, the score of an adjusted_xp of at
\* most 0.8 * medium is no higher than the score of the next larger
\* adjusted_xp and than the score at the easy threshold, where that is not
\* below it.
C26_NonDecreasingUpToBand ==
    (Calculated /\ 5 * combat.adjusted_xp <= 8 * combat.party_xp_thresholds.medium) =>
        \A b \in {combat.adjusted_xp + 1, 2 * combat.party_xp_thresholds.easy} :
            (combat.adjusted_xp <= b /\ 5 * b <= 8 * combat.party_xp_thresholds.medium) =>
                FracLe(score, CalculateBalanceScore(b, combat.party_xp_thresholds))

\* an encounter below the easy threshold with a score above the 0.25 of an
\* encounter at the threshold
C26_DropAtEasy ==
    /\ Calculated
    /\ combat.adjusted_xp < 2 * combat.party_xp_thresholds.easy
    /\ CalculateBalanceScore(2 * combat.party_xp_thresholds.easy,
                             combat.party_xp_thresholds) = Frac(1, 4)
    /\ FracLt(Frac(1, 4), score)

(***************************************************************************)
(* SpecAlias: the calls of SpecSeq, with a caller that changes in place    *)
(* the value the last call handed to it.  A Python dict or list is an      *)
(* object: where the cache holds the object that was returned, the change  *)
(* is a change of the cache entry.                                         *)
(***************************************************************************)
MaxAppends == 1

AliasTexts ==
    {<<"NPC", ":", "Bob">>,
     <<"[", "PUZZLE", ":", "a", "a", "]", " ", "zovut", " ", "Bob">>}

\* what the caller appends to an element list, and what it writes over
\* balance_score (in thousandths)
Appended ==
    [text |-> <<>>, name |-> <<"added">>, start_pos |-> 0, end_pos |-> 0,
     confidence |-> 0]
EditedScore == 999

InitAlias ==
    /\ InitCaches
    /\ last = NoCall
    /\ thr = <<>>
    /\ ExtractIdle
    /\ CombatIdle
    /\ ReportIdle
    /\ WebIdle

\* extract_elements.  Lines 90-91 make two dict(elements): the dict returned
\* by a miss is not the cached dict, but both hold the same lists; line 60
\* returns the cached dict itself.
ExtractElementsHeld ==
    \E t \in AliasTexts :
        \E c \in {ExtractElementsCached(text_cache, t)} :
            /\ text_cache' = c.cache
            /\ last' = [op |-> "extract_elements", arg |-> t, ret |-> c.ret,
                        hit |-> c.hit, same_dict |-> c.hit, changes |-> 0]
            /\ UNCHANGED <<combat_cache, hash_of, thr, extractVars, combatVars,
                           reportVars, webVars>>

\* calculate_encounter_difficulty.  Lines 232-233 store and return the same
\* dict, line 188 returns the stored dict.
DifficultyHeld ==
    \E ms \in SampleMonsterLists, level \in ConcLevels, size \in SampleSizes :
        \E c \in {DifficultyCached(combat_cache, ms, level, size)} :
            /\ combat_cache' = c.cache
            /\ last' = [op |-> "calculate_encounter_difficulty",
                        arg |-> <<ms, level, size>>, ret |-> c.ret,
                        hit |-> c.hit, same_dict |-> TRUE, changes |-> 0]
            /\ UNCHANGED <<text_cache, hash_of, thr, extractVars, combatVars,
                           reportVars, webVars>>

NumberAppended(list) == Cardinality({i \in DOMAIN list : list[i] = Appended})

\* the caller: elements[element_type].append(...) on the value it holds.  The
\* list is the list of the cache entry.
AppendToReturned ==
    /\ last.op = "extract_elements"
    /\ \E element_type \in DOMAIN last.ret :
          /\ element_type \in DOMAIN text_cache[last.arg]
          /\ NumberAppended(last.ret[element_type]) < MaxAppends
          /\ last' = [last EXCEPT !.ret[element_type] = Append(@, Appended),
                                  !.changes = @ + 1]
          /\ text_cache' =
                 [text_cache EXCEPT ![last.arg][element_type] = Append(@, Appended)]
    /\ UNCHANGED <<combat_cache, hash_of, thr, extractVars, combatVars,
                   reportVars, webVars>>

\* the caller: elements['note'] = [] on the value it holds, a change of the
\* dict, which is the cached dict after a hit only
SetKeyOfReturned ==
    /\ last.op = "extract_elements"
    /\ "note" \notin DOMAIN last.ret
    /\ last' = [last EXCEPT !.ret = ("note" :> <<>>) @@ @, !.changes = @ + 1]
    /\ text_cache' =
           IF last.same_dict
           THEN [text_cache EXCEPT ![last.arg] = ("note" :> <<>>) @@ @]
           ELSE text_cache
    /\ UNCHANGED <<combat_cache, hash_of, thr, extractVars, combatVars,
                   reportVars, webVars>>

\* the caller: result['balance_score'] = ... on the value it holds
EditBalanceScore ==
    /\ last.op = "calculate_encounter_difficulty"
    /\ last.ret.balance_score # EditedScore
    /\ last' = [last EXCEPT !.ret.balance_score = EditedScore, !.changes = @ + 1]
    /\ combat_cache' =
           [combat_cache EXCEPT
               ![CacheKey(last.arg[1], last.arg[2], last.arg[3])].balance_score =
                   EditedScore]
    /\ UNCHANGED <<text_cache, hash_of, thr, extractVars, combatVars,
                   reportVars, webVars>>

NextAlias ==
    \/ ExtractElementsHeld
    \/ DifficultyHeld
    \/ AppendToReturned
    \/ SetKeyOfReturned
    \/ EditBalanceScore

SpecAlias == InitAlias /\ [][NextAlias]_vars

\* the step is a change the caller makes to the value it holds
CallerChanges ==
    /\ last.op # "none"
    /\ last'.op = last.op
    /\ last'.changes = last.changes + 1

\* C28: a change the caller makes to a returned value leaves what a call of
\* extract_elements or of calculate_encounter_difficulty returns, for every
\* input, as it was before the change.
C28_ChangesStayWithTheCaller ==
    [][CallerChanges =>
          /\ \A t \in AliasTexts :
                ExtractElementsCached(text_cache', t).ret =
                    ExtractElementsCached(text_cache, t).ret
          /\ \A ms \in SampleMonsterLists, level \in ConcLevels, size \in SampleSizes :
                DifficultyCached(combat_cache', ms, level, size).ret =
                    DifficultyCached(combat_cache, ms, level, size).ret]_vars

\* a call of extract_elements that returns an element the caller appended,
\* and a cached analysis that carries the score a caller wrote
C28_ReturnsTheAppendedElement ==
    /\ last.op = "extract_elements"
    /\ last.hit
    /\ last.changes = 0
    /\ \E element_type \in DOMAIN last.ret :
          NumberAppended(last.ret[element_type]) = 1
    /\ \E k \in DOMAIN combat_cache : combat_cache[k].balance_score = EditedScore

(***************************************************************************)
(* SpecFavorite: toggle_favorite requests on one scenario, one request per *)
(* user, served at the same time.  There is no transaction around the view *)
(* (autocommit): every ORM call is a step of its own, and scenario is an   *)
(* object in the memory of the request, read once.                         *)
(***************************************************************************)
NumUsers == 3
Users == 1..NumUsers

NoRequest == [pc |-> "none", favorites |-> 0, created |-> FALSE]
Received == [pc |-> "received", favorites |-> 0, created |-> FALSE]

\* the counter agrees with the rows; any of the users sends a request
InitFavorite ==
    /\ favorite_rows \in SUBSET Users
    /\ favorites = Cardinality(favorite_rows)
    /\ req \in [Users -> {NoRequest, Received}]
    /\ ApiIdle
    /\ ExtractIdle
    /\ CombatIdle
    /\ CacheIdle
    /\ ReportIdle

notFavoriteVars == <<apiVars, extractVars, combatVars, cacheVars, reportVars>>

\* line 576: scenario = get_object_or_404(Scenario, pk=pk)
GetScenario(u) ==
    /\ req[u].pc = "received"
    /\ req' = [req EXCEPT ![u].pc = "get_or_create", ![u].favorites = favorites]
    /\ UNCHANGED <<favorites, favorite_rows, notFavoriteVars>>

\* lines 578-581, and line 588 when the row was created.  The pair
\* (user, scenario) is unique: of two requests one creates, the other gets.
GetOrCreate(u) ==
    /\ req[u].pc = "get_or_create"
    /\ IF u \in favorite_rows
       THEN /\ req' = [req EXCEPT ![u].pc = "delete", ![u].created = FALSE]
            /\ UNCHANGED favorite_rows
       ELSE /\ req' = [req EXCEPT ![u].pc = "save", ![u].created = TRUE,
                                  ![u].favorites = @ + 1]
            /\ favorite_rows' = favorite_rows \cup {u}
    /\ UNCHANGED <<favorites, notFavoriteVars>>

\* lines 583-585: favorite.delete() and scenario.favorites -= 1
DeleteFavorite(u) ==
    /\ req[u].pc = "delete"
    /\ favorite_rows' = favorite_rows \ {u}
    /\ req' = [req EXCEPT ![u].pc = "save", ![u].favorites = @ - 1]
    /\ UNCHANGED <<favorites, notFavoriteVars>>

\* line 591: scenario.save(update_fields=['favorites']) writes the value of
\* the object; the column is a PositiveIntegerField, and the database
\* refuses a negative value
SaveScenario(u) ==
    /\ req[u].pc = "save"
    /\ IF req[u].favorites < 0
       THEN /\ req' = [req EXCEPT ![u].pc = "error"]
            /\ UNCHANGED favorites
       ELSE /\ req' = [req EXCEPT ![u].pc = "done"]
            /\ favorites' = req[u].favorites
    /\ UNCHANGED <<favorite_rows, notFavoriteVars>>

\* toggle_favorite, lines 573-593, step by step
ToggleFavorite(u) ==
    \/ GetScenario(u)
    \/ GetOrCreate(u)
    \/ DeleteFavorite(u)
    \/ SaveScenario(u)

NextFavorite == \E u \in Users : ToggleFavorite(u)

SpecFavorite == InitFavorite /\ [][NextFavorite]_vars

RequestsCompleted == \A u \in Users : req[u].pc \in {"none", "done", "error"}

\* C29: the counter is never negative, and when the requests have completed
\* it is the number of Favorite rows of the scenario.
C29_CounterEqualsRows ==
    /\ favorites >= 0
    /\ RequestsCompleted => favorites = Cardinality(favorite_rows)

\* two users added the scenario at the same time: two rows, counter 1
C29_LostUpdate ==
    /\ RequestsCompleted
    /\ \E u, v \in Users :
          /\ u # v
          /\ req[u].pc = "done" /\ req[u].created
          /\ req[v].pc = "done" /\ req[v].created
          /\ req[u].favorites = 1 /\ req[v].favorites = 1
    /\ favorites = 1
    /\ Cardinality(favorite_rows) = 2

\* the recommendation s is among the recommendations of the report
NarrativeRecommended(s) == \E k \in DOMAIN report.recommendations : report.recommendations[k] = s

\* C30: every call of analyze_narrative_flow recommends more transition
\* words, whatever transition_word_count is.  The other recommendations
\* follow their thresholds: coherence for a narrative score below 0.4 (not
\* for one above 0.4), more paragraphs for fewer than 3, merging paragraphs
\* for more than 20, more detail for fewer than 10 sentences.
C30_TransitionAdviceAlways ==
    NarrativeDone =>
        /\ report.raised = "none"
        /\ NarrativeRecommended("Ispolzujte bolshe slov-perehodov")
        /\ FracLt(report.narrative, Frac(4, 10)) =>
               NarrativeRecommended("Povestvovanie trebuet uluchsheniya svyaznosti")
        /\ FracLt(Frac(4, 10), report.narrative) =>
               ~NarrativeRecommended("Povestvovanie trebuet uluchsheniya svyaznosti")
        /\ NarrativeRecommended("Dobavte bolshe paragrafov") <=> report.paragraph_count < 3
        /\ NarrativeRecommended("Slishkom mnogo korotkih paragrafov") <=> report.paragraph_count > 20
        /\ NarrativeRecommended("Dobavte detalej i opisanij") <=> report.sentence_count < 10

\* a text with more transition words than sentences, and the recommendation
\* to use more of them
C30_AdviceForATextFullOfTransitions ==
    /\ NarrativeDone
    /\ report.raised = "none"
    /\ report.sentence_count >= 1
    /\ report.transition_word_count > report.sentence_count
    /\ NarrativeRecommended("Ispolzujte bolshe slov-perehodov")

\* the text of 21 paragraphs: merging is recommended
C30_ManyParagraphs ==
    /\ NarrativeDone
    /\ scenario = ManyParagraphs
    /\ report.paragraph_count = 21
    /\ NarrativeRecommended("Slishkom mnogo korotkih paragrafov")
    /\ ~NarrativeRecommended("Dobavte bolshe paragrafov")

\* the text of 10 sentences: more detail is not recommended
C30_ManySentences ==
    /\ NarrativeDone
    /\ scenario = ManySentences
    /\ report.sentence_count = 10
    /\ report.recommendations =
           <<"Dobavte bolshe paragrafov", "Ispolzujte bolshe slov-perehodov">>

====
